---- MODULE Spec2Model ----
(***************************************************************************)
(* A model of dhc3po, a DHCPv4 server: the shared address pool             *)
(* (src/src/state.rs), the Discover/Request state machine                  *)
(* (src/src/dhcp.rs) and the workers that call it (src/src/main.rs).       *)
(*                                                                         *)
(* An Option<T> of the source is a set with at most one element: None is   *)
(* {} and Some(x) is {x}.  The addresses of the model are 172.24.c.d and   *)
(* an Ipv4Addr is written c * 256 + d, so that BTreeMap<Ipv4Addr, _>       *)
(* iterates in ascending order; an address field of four zero bytes        *)
(* (0.0.0.0) is written 0.                                                 *)
(***************************************************************************)
EXTENDS Naturals, FiniteSets, Sequences, TLC

----------------------------------------------------------------------------
(* Bounds of the model *)

\* the largest number of addresses a pool is constructed with
PoolSize == 2

\* the clock reads 0..MaxTime
MaxTime == 1

\* the lease times a LeaseTime option is set to are 1..MaxLease
MaxLease == 2

\* the ranges a pool is constructed from lie in this many values of the
\* third octet
RangeNets == 2

----------------------------------------------------------------------------
(* Program constants *)

\* the lease time used when the pool has no LeaseTime option
DEFAULT_LEASE_TIME == 43200

\* LeaseTime registered by setup_config
SETUP_LEASE_TIME == 32400

\* the octets of 172.24.16.10, the first address of the range setup_config
\* allocates from
NET_A == 172

NET_B == 24

RangeNet == 16

RangeStart == 10

\* the values of a u8 are 0..U8 - 1
U8 == 256

----------------------------------------------------------------------------
(* Value spaces *)

\* one MAC more than the pool has addresses, so that exhaustion happens
MacAddr == 1..(PoolSize + 1)

\* Ipv4Addr::from([u8; 4]) for an address 172.24.c.d
Ipv4Addr_from(o) == o[3] * U8 + o[4]

\* Ipv4Addr::octets
octets(ip) == <<NET_A, NET_B, ip \div U8, ip % U8>>

\* 172.24.16.10
RangeFirst == Ipv4Addr_from(<<NET_A, NET_B, RangeNet, RangeStart>>)

MaxRangeIPs == RangeFirst..(RangeFirst + PoolSize - 1)

\* an address that no pool of the model contains
OutsideIP == RangeFirst + PoolSize

LeaseTimes == 1..MaxLease

Some(x) == {x}

unwrap(opt) == CHOOSE x \in opt : TRUE

SetMin(S) == CHOOSE x \in S : \A y \in S : x <= y

----------------------------------------------------------------------------
(* AddrPool, src/src/state.rs *)

\* Client::new: the lease of mac_address made at clock reading t
Client_new(mac_address, lease_time, t) ==
    [mac_address |-> mac_address, expires |-> t + lease_time]

\* the lease time in force: the pool's LeaseTime option or the default
lease_time_of(opt) ==
    IF opt = {} THEN DEFAULT_LEASE_TIME ELSE unwrap(opt)

\* a - b on u8: with overflow checks a result below 0 panics, without them
\* it wraps
u8_sub(a, b, overflow_checks) ==
    IF a >= b THEN [panic |-> FALSE, v |-> a - b]
    ELSE [panic |-> overflow_checks, v |-> a - b + U8]

\* a + b on u8: with overflow checks a result above 255 panics, without them
\* it wraps
u8_add(a, b, overflow_checks) ==
    IF a + b < U8 THEN [panic |-> FALSE, v |-> a + b]
    ELSE [panic |-> overflow_checks, v |-> a + b - U8]

\* AddrPool::initialise_range: the four nested loops run over the octetwise
\* differences of end and start; a panic leaves no pool
initialise_range(start, end, overflow_checks) ==
    LET s     == octets(start)
        e     == octets(end)
        range == [octet \in 1..4 |-> u8_sub(e[octet], s[octet], overflow_checks)]
        sum(octet, i) == u8_add(s[octet], i, overflow_checks)
        steps == {<<i, ii, iii, iiii>> \in
                     (0..range[1].v) \X (0..range[2].v) \X (0..range[3].v) \X (0..range[4].v) :
                     TRUE}
        panic == \/ \E octet \in 1..4 : range[octet].panic
                 \/ \E octet \in 1..4 : sum(octet, range[octet].v).panic
        ips   == {Ipv4Addr_from([octet \in 1..4 |-> sum(octet, st[octet]).v]) : st \in steps}
    IN  IF panic
        THEN [panic |-> TRUE, pool |-> <<>>]
        ELSE [panic |-> FALSE, pool |-> [ip \in ips |-> {}]]

\* a lookup that never finds the MAC
lookup_mac_miss(p, mac_addr) == {}

\* the first (lowest) address whose lease holds mac_addr
lookup_mac(p, mac_addr) ==
    LET hits == {ip \in DOMAIN p : \E c \in p[ip] : c.mac_address = mac_addr}
    IN  IF hits = {} THEN {} ELSE Some(SetMin(hits))

\* an allocation that takes the highest free address
allocate_address_last(p, mac_address, lease_time, t) ==
    LET free == {ip \in DOMAIN p : p[ip] = {}}
        top  == CHOOSE x \in free : \A y \in free : y <= x
    IN  IF free = {}
        THEN [pool |-> p, ret |-> {}]
        ELSE [pool |-> [p EXCEPT ![top] =
                            Some(Client_new(mac_address, lease_time, t))],
              ret  |-> Some(top)]

\* AddrPool::allocate_address: lease the lowest free address, or None
allocate_address(p, mac_address, lease_time, t) ==
    LET free == {ip \in DOMAIN p : p[ip] = {}}
    IN  IF free = {}
        THEN [pool |-> p, ret |-> {}]
        ELSE [pool |-> [p EXCEPT ![SetMin(free)] =
                            Some(Client_new(mac_address, lease_time, t))],
              ret  |-> Some(SetMin(free))]

\* the key min_by_key compares: the expires of the lease at ip
ExpiresAt(p, ip) == (unwrap(p[ip])).expires

\* a victim chosen without looking at expires: the first leased address
Victim_first(p) ==
    LET leased == {ip \in DOMAIN p : p[ip] # {}}
    IN  IF leased = {} THEN {} ELSE Some(SetMin(leased))

\* the victim of an eviction: the first address among the leases of least
\* expires; None when no address is leased (the unwrap then panics)
Victim(p) ==
    LET leased == {ip \in DOMAIN p : p[ip] # {}}
        oldest == {ip \in leased :
                      \A other \in leased : ExpiresAt(p, ip) <= ExpiresAt(p, other)}
    IN  IF leased = {} THEN {} ELSE Some(SetMin(oldest))

\* an eviction that returns the victim's address and leaves its lease alone
evict_oldest_lease_keep(p, mac_address, lease_time, t) ==
    LET victim == Victim(p)
    IN  IF victim = {}
        THEN [pool |-> p, ret |-> 0, kind |-> "panic"]
        ELSE [pool |-> p, ret |-> unwrap(victim), kind |-> "evict"]

\* an eviction that replaces the MAC and keeps the victim's expires
evict_oldest_lease_unrefreshed(p, mac_address, lease_time, t) ==
    LET victim == Victim(p)
    IN  IF victim = {}
        THEN [pool |-> p, ret |-> 0, kind |-> "panic"]
        ELSE [pool |-> [p EXCEPT ![unwrap(victim)] =
                            Some([mac_address |-> mac_address,
                                  expires |-> ExpiresAt(p, unwrap(victim))])],
              ret  |-> unwrap(victim),
              kind |-> "evict"]

\* AddrPool::evict_oldest_lease
evict_oldest_lease(p, mac_address, lease_time, t) ==
    LET victim == Victim(p)
    IN  IF victim = {}
        THEN [pool |-> p, ret |-> 0, kind |-> "panic"]
        ELSE [pool |-> [p EXCEPT ![unwrap(victim)] =
                            Some(Client_new(mac_address, lease_time, t))],
              ret  |-> unwrap(victim),
              kind |-> "evict"]

\* a request that allocates without looking the MAC up first
request_realloc(p, mac_address, lease_time, t) ==
    LET alloc == allocate_address(p, mac_address, lease_time, t)
    IN  IF alloc.ret # {}
        THEN [pool |-> alloc.pool, ret |-> unwrap(alloc.ret), kind |-> "free"]
        ELSE evict_oldest_lease(p, mac_address, lease_time, t)

\* a request that gives up when no address is free
request_no_evict(p, mac_address, lease_time, t) ==
    LET found == lookup_mac(p, mac_address)
        alloc == allocate_address(p, mac_address, lease_time, t)
    IN  IF found # {}
        THEN [pool |-> p, ret |-> unwrap(found), kind |-> "reuse"]
        ELSE IF alloc.ret # {}
             THEN [pool |-> alloc.pool, ret |-> unwrap(alloc.ret), kind |-> "free"]
             ELSE [pool |-> p, ret |-> 0, kind |-> "exhausted"]

\* AddrPool::request; kind tells which of the three ways served the call
request(p, mac_address, lease_time, t) ==
    LET found == lookup_mac(p, mac_address)
        alloc == allocate_address(p, mac_address, lease_time, t)
    IN  IF found # {}
        THEN [pool |-> p, ret |-> unwrap(found), kind |-> "reuse"]
        ELSE IF alloc.ret # {}
             THEN [pool |-> alloc.pool, ret |-> unwrap(alloc.ret), kind |-> "free"]
             ELSE evict_oldest_lease(p, mac_address, lease_time, t)

\* a check that takes a lease of another MAC for a match
verify_request_inverted(p, mac_address, ip_addr) ==
    /\ ip_addr \in DOMAIN p
    /\ \E client \in p[ip_addr] : client.mac_address # mac_address

\* a check that is content with a lease of the address, whoever holds it
verify_request_leased(p, mac_address, ip_addr) ==
    /\ ip_addr \in DOMAIN p
    /\ p[ip_addr] # {}

\* AddrPool::verify_request
verify_request(p, mac_address, ip_addr) ==
    /\ ip_addr \in DOMAIN p
    /\ \E client \in p[ip_addr] : client.mac_address = mac_address

----------------------------------------------------------------------------
(* DhcpOption and DhcpOptionList, src/src/types/dhcp_option.rs.  An option *)
(* is written [opcode, value]: value holds the four bytes of an address,   *)
(* the u32 of a LeaseTime, the code of a MessageType, the opcodes of a     *)
(* ParameterRequestList, the bytes of a name, and is empty for Pad and End *)

PAD == 0

SUBNET_MASK == 1

ROUTER == 3

DOMAIN_NAME_SERVER == 6

HOST_NAME == 12

DOMAIN_NAME == 15

BROADCAST_ADDRESS == 28

REQUESTED_IP_ADDR == 50

LEASE_TIME == 51

MESSAGE_TYPE == 53

DHCP_SERVER_IP_ADDR == 54

PARAMETER_REQUEST_LIST == 55

MAX_MESSAGE_SIZE == 57

VENDOR_CLASS_ID == 60

CLIENT_ID == 61

CLIENT_SYSTEM_ARCH == 93

CLIENT_NET_DEV_INTERFACE == 94

CLIENT_UID == 97

END == 255

\* the capacity of a DhcpOptionList
MAX_LIST_LEN == 20

\* the send and receive buffers
UDP_BUFFER_SIZE == 512

DhcpOption(opcode, value) == [opcode |-> opcode, value |-> value]

Zeros(n) == [i \in 1..n |-> 0]

\* x >> shift as u8
ShiftedByte(x, shift) == (x \div (2 ^ shift)) % U8

\* DhcpOption::serialise: the bytes written to the buffer; the options that
\* have no arm end in todo!()
DhcpOption_serialise(opt) ==
    IF opt.opcode \in {SUBNET_MASK, ROUTER, BROADCAST_ADDRESS, DOMAIN_NAME_SERVER,
                       DHCP_SERVER_IP_ADDR}
    THEN [panic |-> FALSE, bytes |-> <<opt.opcode, 6 - 2>> \o opt.value]
    ELSE IF opt.opcode \in {HOST_NAME, DOMAIN_NAME}
    THEN [panic |-> FALSE,
          bytes |-> <<opt.opcode, ((Len(opt.value) + 2) - 2) % U8>> \o opt.value]
    ELSE IF opt.opcode = MESSAGE_TYPE
    THEN [panic |-> FALSE, bytes |-> <<opt.opcode, 3 - 2, opt.value[1]>>]
    ELSE IF opt.opcode = LEASE_TIME
    THEN [panic |-> FALSE,
          bytes |-> <<opt.opcode, 6 - 2,
                      ShiftedByte(opt.value[1], 24), ShiftedByte(opt.value[1], 16),
                      ShiftedByte(opt.value[1], 8), ShiftedByte(opt.value[1], 0)>>]
    ELSE IF opt.opcode = END
    THEN [panic |-> FALSE, bytes |-> <<opt.opcode>>]
    ELSE [panic |-> TRUE, bytes |-> <<opt.opcode>>]

\* DhcpOptionList::builder: count is 0 and every slot is None; the options
\* field holds the first count slots, panic says that a call on the list
\* panicked
DhcpOptionList_builder == [count |-> 0, options |-> <<>>, panic |-> FALSE]

\* DhcpOptionList::add: the option goes into slot count, which is out of
\* bounds when the list is full
DhcpOptionList_add(self, option) ==
    IF self.panic THEN self
    ELSE IF self.count >= MAX_LIST_LEN THEN [self EXCEPT !.panic = TRUE]
    ELSE [count   |-> self.count + 1,
          options |-> Append(self.options, option),
          panic   |-> FALSE]

\* DhcpOptionList::get: the current entry for an opcode, the one added last
DhcpOptionList_get(self, opcode) ==
    LET at == {i \in 1..self.count : self.options[i].opcode = opcode}
    IN  IF at = {} THEN {}
        ELSE Some(self.options[CHOOSE i \in at : \A j \in at : j <= i])

\* DhcpOptionList::consume: the entries by opcode
DhcpOptionList_consume(self) ==
    [opcode \in 0..(U8 - 1) |-> DhcpOptionList_get(self, opcode)]

----------------------------------------------------------------------------
(* Dhcp::parse, src/src/dhcp.rs, on the bytes of a datagram.  data[i] of   *)
(* the source is data[i + 1] here, data[a..b] is SubSeq(data, a + 1, b)    *)

\* MessageType, src/src/types/message_type.rs
DISCOVER == 1

OFFER == 2

REQUEST == 3

DECLINE == 4

ACK == 5

NACK == 6

RELEASE == 7

INFORM == 8

UNSET == 255

REQUEST_OP_CODE == 1

REPLY_OP_CODE == 2

HW_TYPE_ETHERNET == 1

HW_ADDRESS_LEN == 6

MINIMUM_PAYLOAD_LENGTH == 240

OPTIONS_START == 240

MAGIC == <<99, 130, 83, 99>>

IP_ADDR_LEN == 4

MAX_PARAMETER_REQUEST_LIST_LEN == 40

MAX_CLIENT_UID_LEN == 17

MIN_CLIENT_UID_LEN == 2

MAX_MESSAGE_SIZE_LEN == 2

MESSAGE_TYPE_LEN == 1

MIN_PARAMETER_REQUEST_LEN == 1

CLIENT_NET_DEV_INTERFACE_LEN == 3

CLIENT_SYSTEM_ARCH_LEN == 2

MAX_VENDOR_CLASS_ID_LEN == 32

MacAddr_LEN == 6

\* the opcodes ParameterRequest::from(u8) has an arm for; any other ends in
\* todo!()
ParameterRequest ==
    {1, 2, 3, 4, 5, 6, 12, 13, 15, 17, 18, 22, 23, 28, 31, 33, 40, 41, 42, 43, 44,
     46, 47, 50, 51, 54, 58, 59, 60, 66, 67, 97, 119, 121, 128, 129, 130, 131, 132,
     133, 134, 135, 249, 252}

Ok(packet) == [kind |-> "Ok", packet |-> packet]

Err(error, arg) == [kind |-> "Err", error |-> error, arg |-> arg]

Panic == [kind |-> "panic"]

\* data.get(from..from + n)
get_range(data, from, n) ==
    IF from + n <= Len(data) THEN Some(SubSeq(data, from + 1, from + n)) ELSE {}

\* ClientIdentifier::try_from(&[u8])
ClientIdentifier_try_from(value) ==
    IF Len(value) = 0 THEN Panic
    ELSE IF value[1] # HW_TYPE_ETHERNET THEN Err("UnsupportedClientIdHwType", value[1])
    ELSE IF Len(value) - 1 < MacAddr_LEN THEN Panic
    ELSE Ok(SubSeq(value, 1, 1 + MacAddr_LEN))

\* what the option loop of parse hands on: the message type and the options
\* found so far
Options(message_type, options) ==
    [kind |-> "Ok", message_type |-> message_type, options |-> options]

RECURSIVE parse_options(_, _, _, _)

\* Dhcp::parse, one turn of the loop over the options, with option_ptr at an
\* opcode
parse_options(data, option_ptr, message_type, options) ==
    IF options.panic THEN Panic
    ELSE IF option_ptr >= Len(data) THEN Options(message_type, options)
    ELSE
    LET option_opcode == data[option_ptr + 1]
        has_len    == option_ptr + 1 < Len(data)
        option_len == data[option_ptr + 2]
        value_ptr  == option_ptr + 2
        value      == get_range(data, value_ptr, option_len)
        \* the end of the arm: the option, if one was made, is added and the
        \* loop goes on behind the value
        go_on(made) ==
            parse_options(data, value_ptr + option_len, message_type,
                          IF made = {} THEN options
                          ELSE DhcpOptionList_add(options, unwrap(made)))
        made_of(bytes) ==
            IF value = {} THEN {} ELSE Some(DhcpOption(option_opcode, bytes))
    IN
    IF option_opcode = PAD
    THEN parse_options(data, option_ptr, message_type,
                       DhcpOptionList_add(options, DhcpOption(PAD, <<>>)))
    ELSE IF option_opcode = END
    THEN IF DhcpOptionList_add(options, DhcpOption(END, <<>>)).panic
         THEN Panic
         ELSE Options(message_type, DhcpOptionList_add(options, DhcpOption(END, <<>>)))
    ELSE IF ~has_len THEN Err("DhcpOptionLenOutOfBounds", 0)
    ELSE IF option_opcode = MESSAGE_TYPE
    THEN IF option_len # MESSAGE_TYPE_LEN THEN Err("MessageTypeBadLen", option_len)
         ELSE IF value_ptr >= Len(data)
              THEN parse_options(data, value_ptr + option_len, message_type, options)
              ELSE IF data[value_ptr + 1] \notin DISCOVER..INFORM
                   THEN Err("InvalidDhcpOptionMessageType", data[value_ptr + 1])
                   ELSE parse_options(data, value_ptr + option_len,
                                      data[value_ptr + 1], options)
    ELSE IF option_opcode \in {REQUESTED_IP_ADDR, DHCP_SERVER_IP_ADDR}
    THEN IF option_len # IP_ADDR_LEN THEN Err("InvalidIpAddrLen", option_len)
         ELSE go_on(made_of(unwrap(value)))
    ELSE IF option_opcode = MAX_MESSAGE_SIZE
    THEN IF option_len # MAX_MESSAGE_SIZE_LEN THEN Err("MaxMessageSizeBadLen", option_len)
         ELSE go_on(made_of(<<unwrap(value)[1] * U8 + unwrap(value)[2]>>))
    ELSE IF option_opcode = PARAMETER_REQUEST_LIST
    THEN IF option_len < MIN_PARAMETER_REQUEST_LEN
            \/ option_len > MAX_PARAMETER_REQUEST_LIST_LEN
         THEN Err("InvalidParameterRequestLen", option_len)
         ELSE IF \E list \in value : \E i \in 1..Len(list) : list[i] \notin ParameterRequest
              THEN Panic
              ELSE go_on(made_of(unwrap(value)))
    ELSE IF option_opcode = VENDOR_CLASS_ID
    THEN IF option_len > MAX_VENDOR_CLASS_ID_LEN
         THEN Err("InvalidVendorClassIdentifierLen", option_len)
         ELSE go_on(made_of(unwrap(value) \o Zeros(MAX_VENDOR_CLASS_ID_LEN - option_len)))
    ELSE IF option_opcode = CLIENT_SYSTEM_ARCH
    THEN IF option_len # CLIENT_SYSTEM_ARCH_LEN
         THEN Err("InvalidClientSystemArchLen", option_len)
         ELSE go_on(made_of(unwrap(value)))
    ELSE IF option_opcode = CLIENT_NET_DEV_INTERFACE
    THEN IF option_len # CLIENT_NET_DEV_INTERFACE_LEN
         THEN Err("InvalidClientNetworkDeviceInterfaceLen", option_len)
         ELSE go_on(made_of(unwrap(value)))
    ELSE IF option_opcode = CLIENT_ID
    THEN IF value = {} THEN Panic
         ELSE IF ClientIdentifier_try_from(unwrap(value)).kind # "Ok"
              THEN ClientIdentifier_try_from(unwrap(value))
              ELSE go_on(made_of(ClientIdentifier_try_from(unwrap(value)).packet))
    ELSE IF option_opcode = CLIENT_UID
    THEN IF option_len < MIN_CLIENT_UID_LEN \/ option_len > MAX_CLIENT_UID_LEN
         THEN Err("InvalidClientUidLen", option_len)
         ELSE IF value # {} /\ option_len # MAX_CLIENT_UID_LEN
              THEN Panic
              ELSE go_on(made_of(unwrap(value)))
    ELSE go_on({})

\* the Dhcp struct parse returns: the fields of the header and what the
\* option loop found
Dhcp_of(data, found) ==
    [op_code          |-> data[1],
     hw_addr_ty       |-> data[2],
     hw_addr_len      |-> data[3],
     hops             |-> data[4],
     transaction_id   |-> SubSeq(data, 5, 8),
     secs             |-> SubSeq(data, 9, 10),
     flags            |-> SubSeq(data, 11, 12),
     client_addr      |-> SubSeq(data, 13, 16),
     server_addr      |-> SubSeq(data, 17, 20),
     next_server_addr |-> SubSeq(data, 21, 24),
     relay_addr       |-> SubSeq(data, 25, 28),
     client_hw_addr   |-> SubSeq(data, 29, 34),
     server_hostname  |-> SubSeq(data, 45, 108),
     file             |-> SubSeq(data, 109, 236),
     options          |-> found.options,
     message_type     |-> found.message_type]

\* a parse that looks for the magic before it looks at the op code
Dhcp_parse_magic_first(data) ==
    LET data_len == Len(data)
        found    == parse_options(data, OPTIONS_START, UNSET, DhcpOptionList_builder)
    IN  IF data_len < MINIMUM_PAYLOAD_LENGTH THEN Err("PayloadTooShort", data_len)
        ELSE IF SubSeq(data, 237, 240) # MAGIC THEN Err("DhcpMagicMissing", 0)
        ELSE IF data[1] # REQUEST_OP_CODE THEN Err("NotADhcpRequest", data[1])
        ELSE IF found.kind # "Ok" THEN found
        ELSE IF found.message_type = UNSET THEN Err("NoMessageDhcpTypeProvided", 0)
        ELSE Ok(Dhcp_of(data, found))

\* a parse that reads the options before it looks for the magic
Dhcp_parse_options_first(data) ==
    LET data_len == Len(data)
        found    == parse_options(data, OPTIONS_START, UNSET, DhcpOptionList_builder)
    IN  IF data_len < MINIMUM_PAYLOAD_LENGTH THEN Err("PayloadTooShort", data_len)
        ELSE IF data[1] # REQUEST_OP_CODE THEN Err("NotADhcpRequest", data[1])
        ELSE IF found.kind # "Ok" THEN found
        ELSE IF SubSeq(data, 237, 240) # MAGIC THEN Err("DhcpMagicMissing", 0)
        ELSE IF found.message_type = UNSET THEN Err("NoMessageDhcpTypeProvided", 0)
        ELSE Ok(Dhcp_of(data, found))

\* a parse that looks at the op code before it looks at the length
Dhcp_parse_op_first(data) ==
    LET data_len == Len(data)
        found    == parse_options(data, OPTIONS_START, UNSET, DhcpOptionList_builder)
    IN  IF data_len > 0 /\ data[1] # REQUEST_OP_CODE THEN Err("NotADhcpRequest", data[1])
        ELSE IF data_len < MINIMUM_PAYLOAD_LENGTH THEN Err("PayloadTooShort", data_len)
        ELSE IF SubSeq(data, 237, 240) # MAGIC THEN Err("DhcpMagicMissing", 0)
        ELSE IF found.kind # "Ok" THEN found
        ELSE IF found.message_type = UNSET THEN Err("NoMessageDhcpTypeProvided", 0)
        ELSE Ok(Dhcp_of(data, found))

\* Dhcp::parse
Dhcp_parse(data) ==
    LET data_len == Len(data)
        found    == parse_options(data, OPTIONS_START, UNSET, DhcpOptionList_builder)
    IN  IF data_len < MINIMUM_PAYLOAD_LENGTH THEN Err("PayloadTooShort", data_len)
        ELSE IF data[1] # REQUEST_OP_CODE THEN Err("NotADhcpRequest", data[1])
        ELSE IF SubSeq(data, 237, 240) # MAGIC THEN Err("DhcpMagicMissing", 0)
        ELSE IF found.kind # "Ok" THEN found
        ELSE IF found.message_type = UNSET THEN Err("NoMessageDhcpTypeProvided", 0)
        ELSE Ok(Dhcp_of(data, found))

----------------------------------------------------------------------------
(* Dhcp::handle and what it calls, src/src/dhcp.rs, on parsed packets, the *)
(* pool and the pool's default options                                     *)

\* MacAddr::new for a MAC whose first three bytes are zero
MacAddr_new(bytes) == (bytes[4] * U8 + bytes[5]) * U8 + bytes[6]

\* the LeaseTime entry of the pool's options, an Option<u32>
LeaseTimeOption(pool_options) ==
    {option.value[1] : option \in DhcpOptionList_get(pool_options, LEASE_TIME)}

\* a response template that keeps the header of the request
Dhcp_build_response_echo(self) ==
    [self EXCEPT !.options = DhcpOptionList_builder, !.message_type = UNSET]

\* Dhcp::build_response
Dhcp_build_response(self) ==
    [op_code          |-> REPLY_OP_CODE,
     hw_addr_ty       |-> HW_TYPE_ETHERNET,
     hw_addr_len      |-> HW_ADDRESS_LEN,
     hops             |-> 0,
     transaction_id   |-> self.transaction_id,
     secs             |-> <<0, 0>>,
     flags            |-> <<0, 0>>,
     client_addr      |-> <<0, 0, 0, 0>>,
     server_addr      |-> <<0, 0, 0, 0>>,
     next_server_addr |-> <<0, 0, 0, 0>>,
     relay_addr       |-> <<0, 0, 0, 0>>,
     client_hw_addr   |-> self.client_hw_addr,
     server_hostname  |-> Zeros(64),
     file             |-> Zeros(128),
     options          |-> DhcpOptionList_builder,
     message_type     |-> UNSET]

RECURSIVE insert_matching_options(_, _, _, _)

\* the for_each of insert_requested_options from the i-th requested opcode
\* on: the pool's entry for the opcode, if there is one, is added
insert_matching_options(option_req_list, i, pool_options, options) ==
    IF i > Len(option_req_list) THEN options
    ELSE LET opt == DhcpOptionList_consume(pool_options)[option_req_list[i]]
         IN  insert_matching_options(option_req_list, i + 1, pool_options,
                 IF opt # {} THEN DhcpOptionList_add(options, unwrap(opt)) ELSE options)

\* an insertion that answers every request with all the options of the pool
Dhcp_insert_requested_options_all(self, pool_options, res) ==
    [res EXCEPT !.options =
        insert_matching_options(
            [i \in 1..pool_options.count |-> pool_options.options[i].opcode],
            1, pool_options, res.options)]

\* Dhcp::insert_requested_options
Dhcp_insert_requested_options(self, pool_options, res) ==
    LET requested == DhcpOptionList_get(self.options, PARAMETER_REQUEST_LIST)
    IN  IF requested = {} THEN res
        ELSE [res EXCEPT !.options =
                 insert_matching_options(unwrap(requested).value, 1, pool_options,
                                         res.options)]

\* an insert_server_addr that adds the option and leaves the header alone
Dhcp_insert_server_addr_option_only(self, pool_options, res) ==
    LET found == DhcpOptionList_get(pool_options, DHCP_SERVER_IP_ADDR)
    IN  IF found = {} THEN res
        ELSE [res EXCEPT !.options = DhcpOptionList_add(res.options, unwrap(found))]

\* Dhcp::insert_server_addr
Dhcp_insert_server_addr(self, pool_options, res) ==
    LET found == DhcpOptionList_get(pool_options, DHCP_SERVER_IP_ADDR)
    IN  IF found = {} THEN res
        ELSE [res EXCEPT !.server_addr = unwrap(found).value,
                         !.options = DhcpOptionList_add(res.options, unwrap(found))]

\* Dhcp::insert_lease
Dhcp_insert_lease(self, pool_options, res) ==
    LET found == DhcpOptionList_get(pool_options, LEASE_TIME)
    IN  IF found = {} THEN res
        ELSE [res EXCEPT !.options = DhcpOptionList_add(res.options, unwrap(found))]

\* the two adds that end offer, ack and nack: the message type and End
add_type_and_end(res, message_type) ==
    [res EXCEPT !.options =
        DhcpOptionList_add(
            DhcpOptionList_add(res.options, DhcpOption(MESSAGE_TYPE, <<message_type>>)),
            DhcpOption(END, <<>>))]

\* what offer and verify return: the response, the pool they leave, whether
\* they panicked and whether that was with the MutexGuard alive, which
\* poisons the Mutex
Handled(res, p, panic, under_guard) ==
    [res |-> res, pool |-> p, panic |-> panic, poisoned |-> panic /\ under_guard]

\* Dhcp::offer
Dhcp_offer(self, p, pool_options, t) ==
    LET res      == Dhcp_build_response(self)
        leased   == request(p, MacAddr_new(self.client_hw_addr),
                            lease_time_of(LeaseTimeOption(pool_options)), t)
        with_ip  == [res EXCEPT !.client_addr = octets(leased.ret)]
        inserted == Dhcp_insert_server_addr(self, pool_options,
                       Dhcp_insert_lease(self, pool_options,
                          Dhcp_insert_requested_options(self, pool_options, with_ip)))
        offer    == add_type_and_end(inserted, OFFER)
    IN  IF leased.kind = "panic" THEN Handled(res, p, TRUE, TRUE)
        ELSE IF inserted.options.panic THEN Handled(inserted, leased.pool, TRUE, TRUE)
        ELSE Handled(offer, leased.pool, offer.options.panic, FALSE)

\* Dhcp::ack
Dhcp_ack(self, res, p, pool_options) ==
    LET inserted == Dhcp_insert_server_addr(self, pool_options,
                       Dhcp_insert_requested_options(self, pool_options, res))
        ack      == add_type_and_end(inserted, ACK)
    IN  IF inserted.options.panic THEN Handled(inserted, p, TRUE, TRUE)
        ELSE Handled(ack, p, ack.options.panic, FALSE)

\* a refusal that names the address it refuses
Dhcp_nack_addressed(self, res, p) ==
    LET requested_ip == DhcpOptionList_get(self.options, REQUESTED_IP_ADDR)
        nack == add_type_and_end(
                    [res EXCEPT !.client_addr =
                        IF requested_ip # {} THEN unwrap(requested_ip).value
                        ELSE self.client_addr],
                    NACK)
    IN  Handled(nack, p, nack.options.panic, TRUE)

\* Dhcp::nack, called by verify with the guard alive
Dhcp_nack(self, res, p) ==
    LET nack == add_type_and_end(res, NACK)
    IN  Handled(nack, p, nack.options.panic, TRUE)

\* a verify that takes the lease of the client it refuses out of the pool
Dhcp_verify_releasing(self, p, pool_options) ==
    LET res           == Dhcp_build_response(self)
        requested_ip  == DhcpOptionList_get(self.options, REQUESTED_IP_ADDR)
        client_mac    == MacAddr_new(self.client_hw_addr)
        client_ip_set == self.client_addr # <<0, 0, 0, 0>>
        released      == [ip \in DOMAIN p |->
                             {client \in p[ip] : client.mac_address # client_mac}]
    IN  IF client_ip_set /\ requested_ip = {}
        THEN Dhcp_ack(self, [res EXCEPT !.client_addr = self.client_addr], p, pool_options)
        ELSE IF /\ requested_ip # {}
                /\ verify_request(p, client_mac,
                                  Ipv4Addr_from(unwrap(requested_ip).value))
             THEN Dhcp_ack(self, [res EXCEPT !.client_addr = unwrap(requested_ip).value],
                           p, pool_options)
             ELSE Dhcp_nack(self, res, released)

\* Dhcp::verify
Dhcp_verify(self, p, pool_options) ==
    LET res           == Dhcp_build_response(self)
        requested_ip  == DhcpOptionList_get(self.options, REQUESTED_IP_ADDR)
        client_mac    == MacAddr_new(self.client_hw_addr)
        client_ip_set == self.client_addr # <<0, 0, 0, 0>>
    IN  IF client_ip_set /\ requested_ip = {}
        THEN Dhcp_ack(self, [res EXCEPT !.client_addr = self.client_addr], p, pool_options)
        ELSE IF /\ requested_ip # {}
                /\ verify_request(p, client_mac,
                                  Ipv4Addr_from(unwrap(requested_ip).value))
             THEN Dhcp_ack(self, [res EXCEPT !.client_addr = unwrap(requested_ip).value],
                           p, pool_options)
             ELSE Dhcp_nack(self, res, p)

RECURSIVE set_options_from(_, _, _)

\* the loop of set_options over the entries of consume() from opcode on,
\* with the bytes written so far behind offset 240
set_options_from(consumed, opcodes, written) ==
    IF opcodes = {} THEN [panic |-> FALSE, bytes |-> written]
    ELSE LET opcode == SetMin(opcodes)
             opt    == DhcpOption_serialise(unwrap(consumed[opcode]))
         IN  IF opt.panic \/ OPTIONS_START + Len(written) + Len(opt.bytes) > UDP_BUFFER_SIZE
             THEN [panic |-> TRUE, bytes |-> written]
             ELSE set_options_from(consumed, opcodes \ {opcode}, written \o opt.bytes)

\* Dhcp::set_options: the bytes of the options, in the order of consume()
Dhcp_set_options(self) ==
    LET consumed == DhcpOptionList_consume(self.options)
    IN  set_options_from(consumed,
                         {self.options.options[i].opcode : i \in 1..self.options.count},
                         <<>>)

\* Dhcp::serialiase: the first len bytes of the zeroed buffer, which are what
\* handle_request sends; bytes 8..10, 12..16, 24..28 and 34..236 are not
\* written
Dhcp_serialiase(self) ==
    LET written == Dhcp_set_options(self)
    IN  [panic |-> written.panic,
         bytes |-> <<self.op_code, self.hw_addr_ty, self.hw_addr_len, self.hops>>
                   \o self.transaction_id \o Zeros(2) \o self.flags \o Zeros(4)
                   \o self.client_addr \o self.server_addr \o Zeros(4)
                   \o self.client_hw_addr \o Zeros(202)
                   \o MAGIC \o written.bytes]

\* what handle_request comes to: it sent a datagram or it panicked
Sent(bytes, p) == [kind |-> "sent", bytes |-> bytes, pool |-> p, poisoned |-> FALSE]

Panicked(p, poisoned) == [kind |-> "panic", pool |-> p, poisoned |-> poisoned]

\* Dhcp::handle
Dhcp_handle(self, p, pool_options, t) ==
    LET handled == IF self.message_type = DISCOVER
                   THEN Dhcp_offer(self, p, pool_options, t)
                   ELSE Dhcp_verify(self, p, pool_options)
        buffer  == Dhcp_serialiase(handled.res)
    IN  IF self.message_type \notin {DISCOVER, REQUEST} THEN Panicked(p, FALSE)
        ELSE IF handled.panic THEN Panicked(handled.pool, handled.poisoned)
        ELSE IF buffer.panic THEN Panicked(handled.pool, FALSE)
        ELSE Sent(buffer.bytes, handled.pool)

\* handle_request: parse(data).unwrap(), handle and send_to
handle_request(data, p, pool_options, t) ==
    LET parse == Dhcp_parse(data)
    IN  IF parse.kind # "Ok" THEN Panicked(p, FALSE)
        ELSE Dhcp_handle(parse.packet, p, pool_options, t)

----------------------------------------------------------------------------
(* State *)

VARIABLES
    pool,       \* AddrPool.pool: address -> Option<Client>
    lease_opt,  \* the LeaseTime entry of AddrPool.options, an Option<u32>
    now,        \* the last reading of SystemTime::now() taken by Client::new
    last,       \* the most recent pool call and what it returned (a request's MAC and address)
    stable,     \* per MAC: the address its last request returned, since the last eviction
    run,        \* the request calls made on the pool since its construction
    lock,       \* the Mutex around the pool: the worker that holds the guard, if any
    pc,         \* per worker: where it is in handle_request
    pkt,        \* per worker: the Dhcp struct parse returned for its datagram
    res,        \* per worker: the response under construction
    target,     \* per worker: the address picked by the scan of allocate / evict
    offered,    \* per MAC: the address of its last Offer, while that lease stands
    roomy,      \* per worker: its Discover arrived with two or more free addresses
    options,    \* AddrPool.options, the default options of the pool
    data,       \* the bytes of the datagram main received last
    parsed,     \* what Dhcp::parse returned for data
    sent,       \* the bytes handle_request sent in answer to data, an Option
    alive,      \* the process runs: no panic has unwound main
    poisoned,   \* the Mutex around the pool is poisoned
    packet      \* the Dhcp struct handed to serialiase apart from the replies, an Option

vars == <<pool, lease_opt, now, last, stable, run,
          lock, pc, pkt, res, target, offered, roomy,
          options, data, parsed, sent, alive, poisoned, packet>>

serving == <<options, data, parsed, sent, alive, poisoned, packet>>

NotParsed == [kind |-> "none"]

\* the specifications of the pool's calls and of the workers follow the
\* LeaseTime entry of the pool's options in lease_opt, and no datagram bytes
ServingIdle ==
    /\ options = DhcpOptionList_builder
    /\ data = <<>>
    /\ parsed = NotParsed
    /\ sent = {}
    /\ alive = TRUE
    /\ poisoned = FALSE
    /\ packet = {}

poolCalls == <<last, stable, run>>

workers == <<lock, pc, pkt, res, target, offered, roomy>>

NoCall == [op |-> "none", mac |-> 0, ip |-> 0, kind |-> "none", prior |-> {}]

\* the calls of a run are no longer followed once a MAC repeats or the run
\* is longer than one call per address plus one
DeadRun == [n |-> 0, macs |-> {}, leases |-> {}, cur |-> 0, live |-> FALSE]

\* the two workers that handle datagrams
Worker == {1, 2}

NoPacket ==
    [message_type |-> "Unset", client_hw_addr |-> 0, client_addr |-> 0,
     requested_ip |-> {}]

NoResponse == [message_type |-> "Unset", client_hw_addr |-> 0, client_addr |-> 0]

WorkersIdle ==
    /\ lock = {}
    /\ pc = [w \in Worker |-> "idle"]
    /\ pkt = [w \in Worker |-> NoPacket]
    /\ res = [w \in Worker |-> NoResponse]
    /\ target = [w \in Worker |-> {}]
    /\ offered = [m \in MacAddr |-> {}]
    /\ roomy = [w \in Worker |-> FALSE]

NextRun(r, mac, lt) ==
    IF r.live /\ mac \notin r.macs /\ r.n <= Cardinality(DOMAIN pool)
    THEN [n |-> r.n + 1, macs |-> r.macs \cup {mac},
          leases |-> r.leases \cup {lt}, cur |-> lt, live |-> TRUE]
    ELSE DeadRun

InitPool ==
    /\ \E k \in 1..PoolSize :
          pool = initialise_range(RangeFirst, RangeFirst + k - 1, TRUE).pool
    /\ lease_opt = {}
    /\ now = 0
    /\ last = NoCall
    /\ stable = [m \in MacAddr |-> {}]
    /\ run = [n |-> 0, macs |-> {}, leases |-> {}, cur |-> 0, live |-> TRUE]
    /\ WorkersIdle
    /\ ServingIdle

----------------------------------------------------------------------------
(* The pool's operations, called one after the other *)

\* pool.request(mac); t is what the clock reads when a lease is made
Request(mac, t) ==
    LET lt == lease_time_of(lease_opt)
        r  == request(pool, mac, lt, t)
    IN  /\ r.kind = "reuse" => t = now
        /\ now' = t
        /\ pool' = r.pool
        /\ last' = [op |-> "request", mac |-> mac, ip |-> r.ret,
                    kind |-> r.kind, prior |-> stable[mac]]
        /\ stable' = IF r.kind = "evict"
                     THEN [m \in MacAddr |-> IF m = mac THEN Some(r.ret) ELSE {}]
                     ELSE [stable EXCEPT ![mac] = Some(r.ret)]
        /\ run' = NextRun(run, mac, lt)
        /\ UNCHANGED lease_opt
        /\ UNCHANGED workers
        /\ UNCHANGED serving

\* pool.verify_request(mac, ip)
VerifyRequest(mac, ip) ==
    /\ last' = [op |-> "verify", mac |-> 0, ip |-> 0,
                kind |-> IF verify_request(pool, mac, ip) THEN "some" ELSE "none",
                prior |-> {}]
    /\ UNCHANGED <<pool, lease_opt, now, stable, run>>
    /\ UNCHANGED workers
    /\ UNCHANGED serving

\* pool.options_mut().add(DhcpOption::LeaseTime(time))
SetLeaseTime(time) ==
    /\ lease_opt # Some(time)
    /\ lease_opt' = Some(time)
    /\ last' = NoCall
    /\ UNCHANGED <<pool, now, stable, run>>
    /\ UNCHANGED workers
    /\ UNCHANGED serving

\* the clock does not go back: what it reads next
Readings == now..MaxTime

NextPool ==
    \/ \E mac \in MacAddr, t \in Readings : Request(mac, t)
    \/ \E mac \in MacAddr, ip \in {RangeFirst, OutsideIP} : VerifyRequest(mac, ip)
    \/ \E time \in LeaseTimes : SetLeaseTime(time)

SpecPool == InitPool /\ [][NextPool]_vars

----------------------------------------------------------------------------
(* The pool's constructor, applied to ranges that span values of the third *)
(* octet, in a build with and in a build without overflow checks           *)

\* the ends of the ranges: 172.24.c.d
RangeEnds ==
    {Ipv4Addr_from(<<NET_A, NET_B, c, d>>) :
        c \in RangeNet..(RangeNet + RangeNets - 1), d \in {0, 10, 20, 250, 255}}

\* before AddrPool::new is called there is no pool
InitRange ==
    /\ pool = <<>>
    /\ lease_opt = {}
    /\ now = 0
    /\ last = NoCall
    /\ stable = [m \in MacAddr |-> {}]
    /\ run = DeadRun
    /\ WorkersIdle
    /\ ServingIdle

\* AddrPool::new(subnet, mask, (start, end)), the pool it makes
New(start, end, overflow_checks) ==
    LET made == initialise_range(start, end, overflow_checks)
    IN  /\ start <= end
        /\ pool' = made.pool
        /\ last' = [op |-> "new", start |-> start, end |-> end,
                    overflow_checks |-> overflow_checks, panic |-> made.panic]
        /\ UNCHANGED <<lease_opt, now, stable, run>>
        /\ UNCHANGED workers
        /\ UNCHANGED serving

NextRange ==
    \E start, end \in RangeEnds, overflow_checks \in BOOLEAN :
        New(start, end, overflow_checks)

SpecRange == InitRange /\ [][NextRange]_vars

----------------------------------------------------------------------------
(* The server: Dhcp::handle (src/src/dhcp.rs) called by the workers of     *)
(* src/src/main.rs on the pool behind its Mutex                            *)

\* The fields of a received datagram that the state machine reads
Datagrams ==
    [message_type : {"Discover"}, chaddr : MacAddr, ciaddr : {0}, requested_ip : {{}}]
    \cup
    [message_type : {"Request"}, chaddr : MacAddr, ciaddr : {0, RangeFirst, OutsideIP},
     requested_ip : {{}}]
    \cup
    [message_type : {"Request"}, chaddr : MacAddr, ciaddr : {0, RangeFirst},
     requested_ip : {Some(ip) : ip \in MaxRangeIPs \cup {OutsideIP}}]

\* Dhcp::parse, the header fields and options handle reads: ciaddr (bytes
\* 12..16) is stored in client_addr, chaddr in client_hw_addr
parse(d) ==
    [message_type   |-> d.message_type,
     client_hw_addr |-> d.chaddr,
     client_addr    |-> d.ciaddr,
     requested_ip   |-> d.requested_ip]

\* Dhcp::build_response
build_response(self) ==
    [message_type |-> "Unset", client_hw_addr |-> self.client_hw_addr, client_addr |-> 0]

\* Dhcp::serialiase, the fields of the reply: client_addr is written to
\* bytes 16..20 (yiaddr), bytes 12..16 (ciaddr) are left zero
serialiase(self) ==
    [message_type |-> self.message_type,
     chaddr       |-> self.client_hw_addr,
     ciaddr       |-> 0,
     yiaddr       |-> self.client_addr]

\* a decision that takes every Request with a ciaddr for a renewal
verify_renew_first(self, response, p) ==
    IF self.client_addr # 0
    THEN [response EXCEPT !.client_addr = self.client_addr, !.message_type = "Ack"]
    ELSE IF self.requested_ip # {}
              /\ verify_request(p, self.client_hw_addr, unwrap(self.requested_ip))
         THEN [response EXCEPT !.client_addr = unwrap(self.requested_ip),
                               !.message_type = "Ack"]
         ELSE [response EXCEPT !.message_type = "Nack"]

\* Dhcp::verify, the decision taken under the lock: the response with its
\* client_addr set and the message type that ack or nack will add
verify(self, response, p) ==
    IF self.client_addr # 0 /\ self.requested_ip = {}
    THEN [response EXCEPT !.client_addr = self.client_addr, !.message_type = "Ack"]
    ELSE IF self.requested_ip # {}
              /\ verify_request(p, self.client_hw_addr, unwrap(self.requested_ip))
         THEN [response EXCEPT !.client_addr = unwrap(self.requested_ip),
                               !.message_type = "Ack"]
         ELSE [response EXCEPT !.message_type = "Nack"]

FreeAddresses(p) == {ip \in DOMAIN p : p[ip] = {}}

\* the pool holds a lease that binds ip to mac
LeaseStands(p, mac, ip) ==
    ip \in DOMAIN p /\ \E c \in p[ip] : c.mac_address = mac

\* main receives a datagram and hands it to a worker: parse, then in handle
\* the response template is built
Recv(w, d) ==
    /\ pc[w] = "idle"
    /\ pkt' = [pkt EXCEPT ![w] = parse(d)]
    /\ res' = [res EXCEPT ![w] = build_response(parse(d))]
    /\ roomy' = [roomy EXCEPT ![w] = /\ d.message_type = "Discover"
                                     /\ Cardinality(FreeAddresses(pool)) >= 2]
    /\ pc' = [pc EXCEPT ![w] = "lock"]
    /\ UNCHANGED <<pool, lease_opt, now, lock, target, offered>>
    /\ UNCHANGED poolCalls
    /\ UNCHANGED serving

\* a lock taken without waiting for the guard to be dropped
Lock_nowait(w) ==
    /\ pc[w] = "lock"
    /\ lock' = {w}
    /\ pc' = [pc EXCEPT ![w] =
                IF pkt[w].message_type = "Discover" THEN "lookup" ELSE "verify"]
    /\ UNCHANGED <<pool, lease_opt, now, pkt, res, target, offered, roomy>>
    /\ UNCHANGED poolCalls
    /\ UNCHANGED serving

\* pool.lock().unwrap() in offer and in verify
Lock(w) ==
    /\ pc[w] = "lock"
    /\ lock = {}
    /\ lock' = {w}
    /\ pc' = [pc EXCEPT ![w] =
                IF pkt[w].message_type = "Discover" THEN "lookup" ELSE "verify"]
    /\ UNCHANGED <<pool, lease_opt, now, pkt, res, target, offered, roomy>>
    /\ UNCHANGED poolCalls
    /\ UNCHANGED serving

\* pool.request in offer, first step: lookup_mac
RequestLookup(w) ==
    /\ pc[w] = "lookup"
    /\ LET found == lookup_mac(pool, pkt[w].client_hw_addr)
       IN  IF found # {}
           THEN /\ res' = [res EXCEPT ![w].client_addr = unwrap(found)]
                /\ pc' = [pc EXCEPT ![w] = "offer_insert"]
           ELSE /\ res' = res
                /\ pc' = [pc EXCEPT ![w] = "allocate"]
    /\ UNCHANGED <<pool, lease_opt, now, lock, pkt, target, offered, roomy>>
    /\ UNCHANGED poolCalls
    /\ UNCHANGED serving

\* allocate_address, the loop's search for a free address
AllocateScan(w) ==
    /\ pc[w] = "allocate"
    /\ LET free == allocate_address(pool, pkt[w].client_hw_addr,
                                    lease_time_of(lease_opt), now).ret
       IN  /\ target' = [target EXCEPT ![w] = free]
           /\ pc' = [pc EXCEPT ![w] = IF free # {} THEN "allocate_write" ELSE "evict"]
    /\ UNCHANGED <<pool, lease_opt, now, lock, pkt, res, offered, roomy>>
    /\ UNCHANGED poolCalls
    /\ UNCHANGED serving

\* allocate_address, the lease is written to the address found
AllocateWrite(w, t) ==
    /\ pc[w] = "allocate_write"
    /\ now' = t
    /\ pool' = [pool EXCEPT ![unwrap(target[w])] =
                   Some(Client_new(pkt[w].client_hw_addr, lease_time_of(lease_opt), t))]
    /\ res' = [res EXCEPT ![w].client_addr = unwrap(target[w])]
    /\ target' = [target EXCEPT ![w] = {}]
    /\ pc' = [pc EXCEPT ![w] = "offer_insert"]
    /\ UNCHANGED <<lease_opt, lock, pkt, offered, roomy>>
    /\ UNCHANGED poolCalls
    /\ UNCHANGED serving

\* evict_oldest_lease, the search for the victim
EvictScan(w) ==
    /\ pc[w] = "evict"
    /\ Victim(pool) # {}
    /\ target' = [target EXCEPT ![w] = Victim(pool)]
    /\ pc' = [pc EXCEPT ![w] = "evict_write"]
    /\ UNCHANGED <<pool, lease_opt, now, lock, pkt, res, offered, roomy>>
    /\ UNCHANGED poolCalls
    /\ UNCHANGED serving

\* evict_oldest_lease, the insert that replaces the victim's lease
EvictWrite(w, t) ==
    /\ pc[w] = "evict_write"
    /\ now' = t
    /\ pool' = [pool EXCEPT ![unwrap(target[w])] =
                   Some(Client_new(pkt[w].client_hw_addr, lease_time_of(lease_opt), t))]
    /\ res' = [res EXCEPT ![w].client_addr = unwrap(target[w])]
    /\ offered' = [m \in MacAddr |->
                     IF \E c \in pool[unwrap(target[w])] : c.mac_address = m
                     THEN {} ELSE offered[m]]
    /\ target' = [target EXCEPT ![w] = {}]
    /\ pc' = [pc EXCEPT ![w] = "offer_insert"]
    /\ UNCHANGED <<lease_opt, lock, pkt, roomy>>
    /\ UNCHANGED poolCalls
    /\ UNCHANGED serving

\* an offer that goes to the send with the guard still held
OfferFinish_keep(w) ==
    /\ pc[w] = "offer_insert"
    /\ res' = [res EXCEPT ![w].message_type = "Offer"]
    /\ pc' = [pc EXCEPT ![w] = "send"]
    /\ pkt' = [pkt EXCEPT ![w] = NoPacket]
    /\ UNCHANGED <<pool, lease_opt, now, lock, target, offered, roomy>>
    /\ UNCHANGED poolCalls
    /\ UNCHANGED serving

\* offer after pool.request: the options are inserted, the guard is dropped
\* and MessageType Offer is added
OfferFinish(w) ==
    /\ pc[w] = "offer_insert"
    /\ lock' = lock \ {w}
    /\ res' = [res EXCEPT ![w].message_type = "Offer"]
    /\ pc' = [pc EXCEPT ![w] = "send"]
    /\ pkt' = [pkt EXCEPT ![w] = NoPacket]
    /\ UNCHANGED <<pool, lease_opt, now, target, offered, roomy>>
    /\ UNCHANGED poolCalls
    /\ UNCHANGED serving

\* verify, under the lock: the branch is chosen
VerifyDecide(w) ==
    /\ pc[w] = "verify"
    /\ LET decided == verify(pkt[w], res[w], pool)
       IN  /\ res' = [res EXCEPT ![w].client_addr = decided.client_addr]
           /\ pc' = [pc EXCEPT ![w] =
                       IF decided.message_type = "Ack" THEN "ack" ELSE "nack"]
    /\ UNCHANGED <<pool, lease_opt, now, lock, pkt, target, offered, roomy>>
    /\ UNCHANGED poolCalls
    /\ UNCHANGED serving

\* ack: the options are inserted, the guard is dropped and MessageType Ack
\* is added
AckFinish(w) ==
    /\ pc[w] = "ack"
    /\ lock' = lock \ {w}
    /\ res' = [res EXCEPT ![w].message_type = "Ack"]
    /\ pc' = [pc EXCEPT ![w] = "send"]
    /\ pkt' = [pkt EXCEPT ![w] = NoPacket]
    /\ UNCHANGED <<pool, lease_opt, now, target, offered, roomy>>
    /\ UNCHANGED poolCalls
    /\ UNCHANGED serving

\* nack adds MessageType Nack; the guard is dropped when verify returns
NackFinish(w) ==
    /\ pc[w] = "nack"
    /\ lock' = lock \ {w}
    /\ res' = [res EXCEPT ![w].message_type = "Nack"]
    /\ pc' = [pc EXCEPT ![w] = "send"]
    /\ pkt' = [pkt EXCEPT ![w] = NoPacket]
    /\ UNCHANGED <<pool, lease_opt, now, target, offered, roomy>>
    /\ UNCHANGED poolCalls
    /\ UNCHANGED serving

\* handle_request sends the serialised response
Send(w) ==
    /\ pc[w] = "send"
    /\ LET reply == serialiase(res[w])
       IN  offered' =
             IF reply.message_type = "Offer"
             THEN [offered EXCEPT ![reply.chaddr] =
                      IF LeaseStands(pool, reply.chaddr, reply.yiaddr)
                      THEN Some(reply.yiaddr) ELSE {}]
             ELSE offered
    /\ pc' = [pc EXCEPT ![w] = "idle"]
    /\ res' = [res EXCEPT ![w] = NoResponse]
    /\ roomy' = [roomy EXCEPT ![w] = FALSE]
    /\ UNCHANGED <<pool, lease_opt, now, lock, pkt, target>>
    /\ UNCHANGED poolCalls
    /\ UNCHANGED serving

\* the state after setup_config: the pool and its LeaseTime option
Init ==
    /\ \E k \in 1..PoolSize :
          pool = initialise_range(RangeFirst, RangeFirst + k - 1, TRUE).pool
    /\ lease_opt = Some(SETUP_LEASE_TIME)
    /\ now = 0
    /\ last = NoCall
    /\ stable = [m \in MacAddr |-> {}]
    /\ run = DeadRun
    /\ WorkersIdle
    /\ ServingIdle

Next ==
    \/ \E w \in Worker, d \in Datagrams : Recv(w, d)
    \/ \E w \in Worker : Lock(w)
    \/ \E w \in Worker : RequestLookup(w)
    \/ \E w \in Worker : AllocateScan(w)
    \/ \E w \in Worker, t \in Readings : AllocateWrite(w, t)
    \/ \E w \in Worker : EvictScan(w)
    \/ \E w \in Worker, t \in Readings : EvictWrite(w, t)
    \/ \E w \in Worker : OfferFinish(w)
    \/ \E w \in Worker : VerifyDecide(w)
    \/ \E w \in Worker : AckFinish(w)
    \/ \E w \in Worker : NackFinish(w)
    \/ \E w \in Worker : Send(w)

Spec == Init /\ [][Next]_vars

----------------------------------------------------------------------------
(* The main loop of src/src/main.rs on the bytes of the datagrams: each    *)
(* datagram is parsed, handled and answered before the next is received    *)

\* an option as a client writes it
Tlv(opcode, value) == <<opcode, Len(value)>> \o value

\* the chaddr of the MAC that is m in the pool
MacBytes(m) == <<0, 0, 0, 0, 0, m>>

\* a BOOTREQUEST of 240 bytes and its options; one with other_header set
\* has another xid and values in the fields that a reply does not echo
Datagram(other_header, m, ciaddr, option_bytes) ==
    (IF other_header
     THEN <<REQUEST_OP_CODE, 6, 16, 3>> \o <<1, 2, 3, m>> \o <<0, 5>> \o <<128, 0>>
          \o ciaddr \o <<172, 24, 16, 99>> \o <<172, 24, 16, 1>> \o <<172, 24, 16, 2>>
          \o MacBytes(m) \o [i \in 1..10 |-> 7]
          \o [i \in 1..64 |-> 115] \o [i \in 1..128 |-> 102]
     ELSE <<REQUEST_OP_CODE, HW_TYPE_ETHERNET, HW_ADDRESS_LEN, 0>> \o <<170, 187, 204, m>>
          \o Zeros(2) \o Zeros(2)
          \o ciaddr \o Zeros(4) \o Zeros(4) \o Zeros(4)
          \o MacBytes(m) \o Zeros(10) \o Zeros(64) \o Zeros(128))
    \o MAGIC \o option_bytes

\* the ParameterRequestLists of the clients: none; opcodes with and without
\* a default in the pool; LeaseTime and ServerIdentifier asked for, with an
\* opcode twice; and as many opcodes as a DhcpOptionList has slots
ParameterRequestLists ==
    {<<>>,
     Tlv(PARAMETER_REQUEST_LIST, <<SUBNET_MASK, ROUTER, DOMAIN_NAME_SERVER>>),
     Tlv(PARAMETER_REQUEST_LIST, <<LEASE_TIME, DHCP_SERVER_IP_ADDR, SUBNET_MASK, SUBNET_MASK>>),
     Tlv(PARAMETER_REQUEST_LIST, [i \in 1..MAX_LIST_LEN |-> SUBNET_MASK])}

Discovers ==
    {Datagram(FALSE, m, Zeros(4),
              Tlv(MESSAGE_TYPE, <<DISCOVER>>) \o requests \o <<END>>) :
        m \in MacAddr, requests \in ParameterRequestLists}
    \cup
    {Datagram(TRUE, 1, Zeros(4),
              Tlv(MESSAGE_TYPE, <<DISCOVER>>)
              \o Tlv(PARAMETER_REQUEST_LIST, <<ROUTER>>) \o <<END>>)}

\* Requests that renew (ciaddr and no RequestedIpAddr), that select
\* (RequestedIpAddr) and that do neither
Requests ==
    {Datagram(FALSE, m, ciaddr,
              Tlv(MESSAGE_TYPE, <<REQUEST>>) \o requests \o <<END>>) :
        m \in MacAddr, ciaddr \in {Zeros(4), octets(RangeFirst), octets(OutsideIP)},
        requests \in {<<>>, Tlv(PARAMETER_REQUEST_LIST, <<SUBNET_MASK, ROUTER>>)}}
    \cup
    {Datagram(FALSE, m, Zeros(4),
              Tlv(MESSAGE_TYPE, <<REQUEST>>) \o Tlv(REQUESTED_IP_ADDR, octets(ip))
              \o requests \o <<END>>) :
        m \in MacAddr, ip \in MaxRangeIPs \cup {OutsideIP},
        requests \in {<<>>, Tlv(PARAMETER_REQUEST_LIST, <<SUBNET_MASK, ROUTER>>)}}
    \cup
    {Datagram(TRUE, 1, ciaddr,
              Tlv(MESSAGE_TYPE, <<REQUEST>>) \o Tlv(REQUESTED_IP_ADDR, octets(RangeFirst))
              \o <<END>>) :
        ciaddr \in {Zeros(4), octets(RangeFirst)}}

\* the message types the state machine has no branch for
Unhandled ==
    {Datagram(FALSE, 1, Zeros(4), Tlv(MESSAGE_TYPE, <<message_type>>) \o <<END>>) :
        message_type \in {DECLINE, RELEASE, INFORM}}

\* datagrams parse returns an error for: one byte short of the header, a
\* reply, no magic, no MessageType, a MessageType of two bytes
Malformed ==
    {SubSeq(Datagram(FALSE, 1, Zeros(4), <<>>), 1, MINIMUM_PAYLOAD_LENGTH - 1),
     <<REPLY_OP_CODE>> \o Tail(Datagram(FALSE, 1, Zeros(4),
                                        Tlv(MESSAGE_TYPE, <<DISCOVER>>) \o <<END>>)),
     SubSeq(Datagram(FALSE, 1, Zeros(4), <<>>), 1, 236) \o Zeros(4)
        \o Tlv(MESSAGE_TYPE, <<DISCOVER>>) \o <<END>>,
     Datagram(FALSE, 1, Zeros(4), <<END>>),
     Datagram(FALSE, 1, Zeros(4), Tlv(MESSAGE_TYPE, <<DISCOVER, 0>>) \o <<END>>)}

ServeFrames == Discovers \cup Requests \cup Unhandled \cup Malformed

\* AddrPool::new: SubnetMask(mask) and End
NewOptions ==
    DhcpOptionList_add(
        DhcpOptionList_add(DhcpOptionList_builder,
                           DhcpOption(SUBNET_MASK, <<255, 255, 240, 0>>)),
        DhcpOption(END, <<>>))

\* setup_config: Router and LeaseTime are added to the options of the pool
SetupOptions ==
    DhcpOptionList_add(
        DhcpOptionList_add(NewOptions, DhcpOption(ROUTER, <<127, 24, 16, 1>>)),
        DhcpOption(LEASE_TIME, <<SETUP_LEASE_TIME>>))

\* a configuration that names the server as well
ServerOptions ==
    DhcpOptionList_add(SetupOptions, DhcpOption(DHCP_SERVER_IP_ADDR, <<172, 24, 16, 1>>))

InitServe ==
    /\ \E k \in 1..PoolSize :
          pool = initialise_range(RangeFirst, RangeFirst + k - 1, TRUE).pool
    /\ options \in {NewOptions, SetupOptions, ServerOptions}
    /\ lease_opt = LeaseTimeOption(options)
    /\ now = 0
    /\ last = NoCall
    /\ stable = [m \in MacAddr |-> {}]
    /\ run = DeadRun
    /\ WorkersIdle
    /\ data = <<>>
    /\ parsed = NotParsed
    /\ sent = {}
    /\ alive = TRUE
    /\ poisoned = FALSE
    /\ packet = {}

\* main: recv_from returns the datagram d and handle_request runs on it; a
\* panic unwinds through thread::scope and main, and the process ends
Serve(d, t) ==
    \E done \in {handle_request(d, pool, options, t)} :
        /\ alive
        /\ done.pool = pool => t = now
        /\ now' = t
        /\ data' = d
        /\ pool' = done.pool
        /\ sent' = IF done.kind = "sent" THEN Some(done.bytes) ELSE {}
        /\ alive' = (done.kind = "sent")
        /\ poisoned' = done.poisoned
        /\ UNCHANGED <<lease_opt, options, parsed, packet>>
        /\ UNCHANGED poolCalls
        /\ UNCHANGED workers

NextServe == \E d \in ServeFrames, t \in Readings : Serve(d, t)

SpecServe == InitServe /\ [][NextServe]_vars

----------------------------------------------------------------------------
(* Dhcp::parse applied to byte sequences, whatever they hold *)

\* the bytes a datagram is filled with
Fillers == {0, 1, 99, 255}

\* every length up to one byte more than the header and the magic
Lengths == 0..(MINIMUM_PAYLOAD_LENGTH + 1)

\* a BOOTREQUEST of MAC 1 with these bytes behind the magic
RequestWith(option_bytes) == Datagram(FALSE, 1, Zeros(4), option_bytes)

\* n times the same byte
Fill(n, byte) == [i \in 1..n |-> byte]

\* the opcodes Dhcp::parse has an arm for, Pad and End aside, and two it has
\* none for
OpcodesTried ==
    {MESSAGE_TYPE, REQUESTED_IP_ADDR, DHCP_SERVER_IP_ADDR, MAX_MESSAGE_SIZE,
     PARAMETER_REQUEST_LIST, VENDOR_CLASS_ID, CLIENT_SYSTEM_ARCH,
     CLIENT_NET_DEV_INTERFACE, CLIENT_ID, CLIENT_UID, HOST_NAME, 200}

\* the lengths at and next to the limits of the options
LengthsTried == {0, 1, 2, 3, 4, 5, 6, 7, 8, 16, 17, 18, 32, 33, 40, 41}

\* the byte a value is filled with: Ethernet and SubnetMask, a hardware type
\* that is not Ethernet, an opcode that is no ParameterRequest
ValuesTried == {1, 6, 200}

\* an option of every opcode, length and value tried, whole
OptionsTried ==
    {Tlv(opcode, Fill(n, byte)) :
        opcode \in OpcodesTried, n \in LengthsTried, byte \in ValuesTried}

\* the same options with the last byte of the value, or all of it, missing
OptionsCut ==
    UNION {{<<opcode, n>> \o Fill(k, 1) : opcode \in OpcodesTried, k \in {0, n - 1}} :
              n \in LengthsTried \ {0}}

\* the option streams of the datagrams: an option behind and before a
\* MessageType, with End; an option cut short at the end of the datagram; an
\* opcode without its length byte; two MessageTypes; Pads before and behind
\* a MessageType
OptionStreams ==
    {Tlv(MESSAGE_TYPE, <<DISCOVER>>) \o option \o <<END>> : option \in OptionsTried}
    \cup {option \o Tlv(MESSAGE_TYPE, <<DISCOVER>>) \o <<END>> : option \in OptionsTried}
    \cup {Tlv(MESSAGE_TYPE, <<DISCOVER>>) \o option : option \in OptionsCut}
    \cup {option : option \in OptionsCut}
    \cup {Tlv(MESSAGE_TYPE, <<DISCOVER>>) \o <<opcode>> : opcode \in OpcodesTried}
    \cup {Tlv(MESSAGE_TYPE, <<DISCOVER>>) \o Tlv(MESSAGE_TYPE, <<message_type>>) \o <<END>> :
            message_type \in {DISCOVER, REQUEST}}
    \cup {Fill(n, PAD) \o Tlv(MESSAGE_TYPE, <<DISCOVER>>) \o <<END>> :
            n \in {1, 2, MAX_LIST_LEN - 1, MAX_LIST_LEN}}
    \cup {Tlv(MESSAGE_TYPE, <<DISCOVER>>) \o <<PAD, END>>,
          Tlv(MESSAGE_TYPE, <<DISCOVER>>) \o <<PAD>>}

OptionFrames == {RequestWith(stream) : stream \in OptionStreams}

\* datagrams of 240 bytes and more whose first byte is not 1, with and
\* without the magic, with options in order and not
NotRequests ==
    {<<op>> \o SubSeq(RequestWith(stream), 2, 236) \o magic \o stream :
        op \in {0, REPLY_OP_CODE, 255},
        magic \in {MAGIC, Zeros(4)},
        stream \in {<<>>, Tlv(MESSAGE_TYPE, <<DISCOVER>>) \o <<END>>,
                    Tlv(MESSAGE_TYPE, <<DISCOVER, 0>>), <<CLIENT_ID, 0>>}}

\* BOOTREQUESTs whose bytes 236..240 are not the magic, in all four bytes or
\* in one
NoMagic ==
    {SubSeq(RequestWith(stream), 1, 236) \o magic \o stream :
        magic \in {Zeros(4), <<99, 130, 83, 0>>, <<0, 130, 83, 99>>, <<99, 83, 130, 99>>},
        stream \in {<<>>, Tlv(MESSAGE_TYPE, <<DISCOVER>>) \o <<END>>,
                    Tlv(MESSAGE_TYPE, <<DISCOVER, 0>>), <<CLIENT_ID, 0>>}}

\* sequences of one byte repeated, of every length from none to past the
\* header, and the datagrams of the clients cut short
CodecFrames ==
    {[i \in 1..n |-> byte] : n \in Lengths, byte \in Fillers}
    \cup UNION {{SubSeq(d, 1, n) :
                   n \in {n \in {1, 4, 236, MINIMUM_PAYLOAD_LENGTH - 1,
                                 MINIMUM_PAYLOAD_LENGTH, MINIMUM_PAYLOAD_LENGTH + 2} :
                            n <= Len(d)}} :
                d \in ServeFrames}
    \cup ServeFrames
    \cup OptionFrames
    \cup NotRequests
    \cup NoMagic

InitCodec ==
    /\ pool = initialise_range(RangeFirst, RangeFirst, TRUE).pool
    /\ lease_opt = {}
    /\ now = 0
    /\ last = NoCall
    /\ stable = [m \in MacAddr |-> {}]
    /\ run = DeadRun
    /\ WorkersIdle
    /\ options = NewOptions
    /\ data \in CodecFrames
    /\ parsed = NotParsed
    /\ sent = {}
    /\ alive = TRUE
    /\ poisoned = FALSE
    /\ packet = {}

\* Dhcp::parse(data)
Parse ==
    /\ parsed = NotParsed
    /\ parsed' = Dhcp_parse(data)
    /\ UNCHANGED <<options, data, sent, alive, poisoned, packet>>
    /\ UNCHANGED <<pool, lease_opt, now>>
    /\ UNCHANGED poolCalls
    /\ UNCHANGED workers

\* serialiase(&self, buffer) on the Dhcp struct parse returned, as parse
\* left it or after options.add(DhcpOption::MessageType(message_type))
Reserialise(typed) ==
    /\ parsed.kind = "Ok"
    /\ packet = {}
    /\ \E p \in {IF typed
                 THEN [parsed.packet EXCEPT !.options =
                          DhcpOptionList_add(parsed.packet.options,
                              DhcpOption(MESSAGE_TYPE, <<parsed.packet.message_type>>))]
                 ELSE parsed.packet} :
        \E buffer \in {Dhcp_serialiase(p)} :
            /\ packet' = Some(p)
            /\ sent' = IF buffer.panic THEN {} ELSE Some(buffer.bytes)
    /\ UNCHANGED <<options, data, parsed, alive, poisoned>>
    /\ UNCHANGED <<pool, lease_opt, now>>
    /\ UNCHANGED poolCalls
    /\ UNCHANGED workers

NextCodec ==
    \/ Parse
    \/ \E typed \in BOOLEAN : Reserialise(typed)

SpecCodec == InitCodec /\ [][NextCodec]_vars

----------------------------------------------------------------------------
(* DhcpOptionList::add, src/src/types/dhcp_option.rs, called on a list     *)
(* from builder() on, as AddrPool::new and setup_config call it            *)

\* the adds followed on one list
MaxAdds == 3

\* the options added: the ones of AddrPool::new and setup_config, and the
\* same opcodes with other values
ListOptions ==
    {DhcpOption(SUBNET_MASK, <<255, 255, 240, 0>>),
     DhcpOption(SUBNET_MASK, <<255, 255, 255, 0>>),
     DhcpOption(ROUTER, <<127, 24, 16, 1>>),
     DhcpOption(ROUTER, <<172, 24, 16, 1>>),
     DhcpOption(LEASE_TIME, <<SETUP_LEASE_TIME>>),
     DhcpOption(LEASE_TIME, <<1>>),
     DhcpOption(END, <<>>)}

\* DhcpOptionList::builder()
InitList ==
    /\ pool = initialise_range(RangeFirst, RangeFirst, TRUE).pool
    /\ lease_opt = {}
    /\ now = 0
    /\ last = NoCall
    /\ stable = [m \in MacAddr |-> {}]
    /\ run = DeadRun
    /\ WorkersIdle
    /\ ServingIdle

\* options.add(option)
Add(option) ==
    /\ options.count < MaxAdds
    /\ options' = DhcpOptionList_add(options, option)
    /\ UNCHANGED <<data, parsed, sent, alive, poisoned, packet>>
    /\ UNCHANGED <<pool, lease_opt, now>>
    /\ UNCHANGED poolCalls
    /\ UNCHANGED workers

NextList == \E option \in ListOptions : Add(option)

SpecList == InitList /\ [][NextList]_vars

----------------------------------------------------------------------------
(* Claims about the pool, checked under SpecPool *)

AllLeased(p) == \A ip \in DOMAIN p : p[ip] # {}

HoldsLease(p, mac) == \E ip \in DOMAIN p : \E c \in p[ip] : c.mac_address = mac

\* C1: after any sequence of completed request calls every address holds at
\* most one lease and no MAC appears in the leases of two addresses
C1_OneLeasePerAddressAndMac ==
    /\ \A ip \in DOMAIN pool : Cardinality(pool[ip]) <= 1
    /\ \A ip1, ip2 \in DOMAIN pool :
          \A c1 \in pool[ip1], c2 \in pool[ip2] :
              c1.mac_address = c2.mac_address => ip1 = ip2

C1_Witness ==
    /\ Cardinality(DOMAIN pool) = PoolSize
    /\ AllLeased(pool)
    /\ last.op = "request" /\ last.kind = "evict" /\ last.ip # RangeFirst

\* C2: right after request(m) returned ip, verify_request(m, ip) is true,
\* whichever way the request was served
C2_RequestThenVerify ==
    last.op = "request" => verify_request(pool, last.mac, last.ip)

C2_Witness ==
    /\ last.op = "request" /\ last.kind = "evict"
    /\ Cardinality(DOMAIN pool) = PoolSize
    /\ verify_request(pool, last.mac, last.ip)

\* C3: request(m) returns the address the previous request(m) returned, as
\* long as no eviction happened in between
C3_StableRebinding ==
    (last.op = "request" /\ last.prior # {}) => last.ip = unwrap(last.prior)

C3_Witness ==
    /\ last.op = "request" /\ last.kind = "reuse"
    /\ last.prior = Some(RangeFirst) /\ last.ip = RangeFirst
    /\ \E ip \in DOMAIN pool : ip # RangeFirst /\ pool[ip] # {}

\* C8: when every address is leased and a MAC without a lease calls request,
\* the address returned is one whose lease had the least expires; afterwards
\* its lease belongs to the new MAC and not to the evicted one, and every
\* other lease is as it was
C8_EvictsOldest ==
    [][(/\ last'.op = "request"
        /\ AllLeased(pool)
        /\ ~HoldsLease(pool, last'.mac))
       => (/\ last'.ip \in DOMAIN pool
           /\ \A ip \in DOMAIN pool :
                 ExpiresAt(pool, last'.ip) <= ExpiresAt(pool, ip)
           /\ verify_request(pool', last'.mac, last'.ip)
           /\ ~verify_request(pool', (unwrap(pool[last'.ip])).mac_address, last'.ip)
           /\ \A ip \in DOMAIN pool : ip # last'.ip => pool'[ip] = pool[ip])]_vars

C8_Witness ==
    /\ last.op = "request" /\ last.kind = "evict"
    /\ last.ip = RangeFirst + 1
    /\ \A ip \in DOMAIN pool : pool[ip] # {} /\ ExpiresAt(pool, ip) <= ExpiresAt(pool, last.ip)
    /\ now = MaxTime

\* the state right after the last of k+1 calls with pairwise distinct MACs on
\* a pool of k addresses that had no leases
AfterLastOfRun ==
    /\ run.live
    /\ run.n = Cardinality(DOMAIN pool) + 1
    /\ last.op = "request"

\* every call of a run of pairwise distinct MACs returns an address of the
\* pool, the first k from the free addresses
RunReturnsAddresses ==
    (run.live /\ run.n >= 1 /\ last.op = "request")
        => /\ last.ip \in DOMAIN pool
           /\ run.n <= Cardinality(DOMAIN pool) => last.kind = "free"

NewestLeaseIsGreatest ==
    \A ip \in DOMAIN pool : ExpiresAt(pool, ip) <= ExpiresAt(pool, last.ip)

\* C9 as stated: after k+1 requests with distinct MACs the last one was
\* served by eviction and its lease has the greatest expires of all leases,
\* whatever lease time was in force at each call
C9_Original ==
    /\ RunReturnsAddresses
    /\ AfterLastOfRun => (last.kind = "evict" /\ NewestLeaseIsGreatest)

\* C9 amended: the same, when the lease time in force at the last call is
\* not smaller than the lease time in force at any earlier call of the run
C9_NewestLeaseGreatest ==
    /\ RunReturnsAddresses
    /\ AfterLastOfRun => last.kind = "evict"
    /\ (AfterLastOfRun /\ \A l \in run.leases : l <= run.cur) => NewestLeaseIsGreatest

C9_Witness ==
    /\ AfterLastOfRun
    /\ Cardinality(DOMAIN pool) = PoolSize
    /\ Cardinality(run.leases) > 1
    /\ \A l \in run.leases : l <= run.cur
    /\ last.kind = "evict"
    /\ NewestLeaseIsGreatest

\* C10: request returns an address of the pool for every MAC in every
\* reachable state; exhaustion is served by eviction, it is neither returned
\* nor a panic
C10_RequestNeverFails ==
    last.op = "request"
        => (last.ip \in DOMAIN pool /\ last.kind \in {"reuse", "free", "evict"})

C10_Witness ==
    /\ last.op = "request" /\ last.kind = "evict"
    /\ Cardinality(DOMAIN pool) = 1
    /\ now = MaxTime

----------------------------------------------------------------------------
(* Claims about the server, checked under Spec *)

\* the steps a worker takes between locking the pool and dropping the guard
PoolSection ==
    {"lookup", "allocate", "allocate_write", "evict", "evict_write",
     "offer_insert", "verify", "ack", "nack"}

\* the reply worker w is about to send
Reply(w) == serialiase(res[w])

\* a reply is not altered once its message type is set
ReplyKept(w) ==
    (pc[w] = "send" /\ pc'[w] = "send") => res'[w] = res[w]

TwoOffers(w1, w2) ==
    /\ w1 # w2
    /\ pc[w1] = "send" /\ pc[w2] = "send"
    /\ roomy[w1] /\ roomy[w2]
    /\ Reply(w1).message_type = "Offer" /\ Reply(w2).message_type = "Offer"
    /\ Reply(w1).chaddr # Reply(w2).chaddr

LeasesOf(p, mac) == {ip \in DOMAIN p : \E c \in p[ip] : c.mac_address = mac}

\* C7: two Discovers from different MACs handled concurrently on a pool with
\* two or more free addresses get Offers with different yiaddr and leave
\* exactly one lease for each MAC; no two workers are between lock and drop
\* at the same time
C7_ConcurrentOffers ==
    /\ Cardinality({w \in Worker : pc[w] \in PoolSection}) <= 1
    /\ \A w \in Worker : pc[w] \in PoolSection => lock = {w}
    /\ \A w1, w2 \in Worker :
          TwoOffers(w1, w2) =>
              /\ Reply(w1).yiaddr # Reply(w2).yiaddr
              /\ LeasesOf(pool, Reply(w1).chaddr) = {Reply(w1).yiaddr}
              /\ LeasesOf(pool, Reply(w2).chaddr) = {Reply(w2).yiaddr}

C7_Witness ==
    \E w1, w2 \in Worker :
        /\ TwoOffers(w1, w2)
        /\ Reply(w1).yiaddr = RangeFirst
        /\ Reply(w2).yiaddr = RangeFirst + 1
        /\ now = MaxTime

\* the steps of a worker outside offer and verify: before pool.lock() and
\* after the guard is dropped
Unlocked == {"idle", "lock", "send"}

\* C17: in every branch (Offer, Ack, Nack) a worker holds the pool lock at
\* each of its pool operations and no longer holds it when it is at the
\* send; at most one worker holds the lock at any time
C17_LockAroundPoolOnly ==
    /\ Cardinality(lock) <= 1
    /\ lock \subseteq Worker
    /\ \A w \in Worker :
          /\ pc[w] \in PoolSection => w \in lock
          /\ pc[w] \in Unlocked => w \notin lock
          /\ pc[w] \in PoolSection \cup Unlocked

C17_Witness ==
    \E w1, w2 \in Worker :
        /\ pc[w1] = "send" /\ Reply(w1).message_type = "Nack"
        /\ pc[w2] = "evict_write" /\ lock = {w2}

----------------------------------------------------------------------------
(* Claims about the pool's constructor, checked under SpecRange *)

\* C19 as stated: for every start <= end the constructor returns a pool
\* whose addresses are exactly those from start to end, none of them leased,
\* also when the range spans several values of a higher octet
C19_Original ==
    last.op = "new" =>
        /\ ~last.panic
        /\ DOMAIN pool = last.start..last.end
        /\ \A ip \in DOMAIN pool : pool[ip] = {}

\* the part of C19 that the constructor keeps: it does so when no octet of
\* end differs from that of start except the last one
C19_WithinLastOctet ==
    (last.op = "new" /\ last.start \div U8 = last.end \div U8) =>
        /\ ~last.panic
        /\ DOMAIN pool = last.start..last.end
        /\ \A ip \in DOMAIN pool : pool[ip] = {}

----------------------------------------------------------------------------
(* Claims about the datagrams, checked under SpecServe.  Offset i of a     *)
(* datagram is element i + 1 of its sequence of bytes                      *)

\* the bytes from offset a up to offset b of a datagram
Bytes(datagram, a, b) == SubSeq(datagram, a + 1, b)

\* the reply sent in answer to data
Sending == unwrap(sent)

\* C11: every reply handle produces has op = 2, htype = 1 and hlen = 6, the
\* xid and the chaddr of the request it answers, and the magic cookie
\* 63 82 53 63 (hexadecimal) at offsets 236..240
C11_ReplyHeader ==
    sent # {} =>
        /\ Len(Sending) >= MINIMUM_PAYLOAD_LENGTH
        /\ Bytes(Sending, 0, 3) = <<2, 1, 6>>
        /\ Bytes(Sending, 4, 8) = Bytes(data, 4, 8)
        /\ Bytes(Sending, 28, 34) = Bytes(data, 28, 34)
        /\ Bytes(Sending, 236, 240) = <<99, 130, 83, 99>>

\* a reply to a request whose htype, hlen and hops are not those of a reply
C11_Witness ==
    /\ sent # {}
    /\ Bytes(data, 1, 4) = <<6, 16, 3>>
    /\ Bytes(data, 4, 8) = <<1, 2, 3, 1>>

RECURSIVE OptionsFrom(_, _)

\* the options a receiver reads in a datagram from element at on: an opcode,
\* a length and as many bytes of value; Pad and End are one byte each
OptionsFrom(datagram, at) ==
    IF at > Len(datagram) THEN <<>>
    ELSE IF datagram[at] \in {PAD, END}
    THEN <<DhcpOption(datagram[at], <<>>)>> \o OptionsFrom(datagram, at + 1)
    ELSE IF at + 1 > Len(datagram) \/ at + 1 + datagram[at + 1] > Len(datagram)
    THEN <<DhcpOption(datagram[at], SubSeq(datagram, at + 2, Len(datagram)))>>
    ELSE <<DhcpOption(datagram[at], SubSeq(datagram, at + 2, at + 1 + datagram[at + 1]))>>
         \o OptionsFrom(datagram, at + 2 + datagram[at + 1])

\* the options of a datagram, in the order they are written in
OptionsOf(datagram) == OptionsFrom(datagram, OPTIONS_START + 1)

\* the datagram carries a MessageType option of this type
IsOfType(datagram, message_type) ==
    \E i \in DOMAIN OptionsOf(datagram) :
        OptionsOf(datagram)[i] = DhcpOption(MESSAGE_TYPE, <<message_type>>)

\* C12: every Nack has yiaddr = 0 and exactly the options MessageType=Nack
\* and End, in this order, whatever ParameterRequestList the request carried
\* and whatever default options the pool holds
C12_NackIsBare ==
    (sent # {} /\ IsOfType(Sending, NACK)) =>
        /\ Bytes(Sending, 16, 20) = <<0, 0, 0, 0>>
        /\ OptionsOf(Sending) = <<DhcpOption(MESSAGE_TYPE, <<NACK>>), DhcpOption(END, <<>>)>>
        /\ Len(Sending) = OPTIONS_START + 4

\* a Nack to a Request that names an address and asks for options the pool
\* has defaults for
C12_Witness ==
    /\ sent # {}
    /\ IsOfType(Sending, NACK)
    /\ IsOfType(data, REQUEST)
    /\ \E i \in DOMAIN OptionsOf(data) :
          /\ OptionsOf(data)[i].opcode = PARAMETER_REQUEST_LIST
          /\ \E j \in DOMAIN OptionsOf(data)[i].value :
                DhcpOptionList_get(options, OptionsOf(data)[i].value[j]) # {}
    /\ \E i \in DOMAIN OptionsOf(data) : OptionsOf(data)[i].opcode = REQUESTED_IP_ADDR
    /\ DhcpOptionList_get(options, DHCP_SERVER_IP_ADDR) # {}

\* a default option of the pool as a receiver reads it: a LeaseTime is four
\* bytes, the most significant first
OnTheWire(option) ==
    IF option.opcode = LEASE_TIME
    THEN DhcpOption(LEASE_TIME,
                    <<(option.value[1] \div 16777216) % U8, (option.value[1] \div 65536) % U8,
                      (option.value[1] \div U8) % U8, option.value[1] % U8>>)
    ELSE option

\* the opcodes the ParameterRequestList of a datagram asks for
Asked(datagram) ==
    UNION {{OptionsOf(datagram)[i].value[j] : j \in DOMAIN OptionsOf(datagram)[i].value} :
              i \in {i \in DOMAIN OptionsOf(datagram) :
                        OptionsOf(datagram)[i].opcode = PARAMETER_REQUEST_LIST}}

\* the options the claim gives an Offer
OfferOptions(datagram, pool_options) ==
    {OnTheWire(unwrap(DhcpOptionList_get(pool_options, opcode))) :
        opcode \in {opcode \in Asked(datagram) \cup {DHCP_SERVER_IP_ADDR, LEASE_TIME} :
                      DhcpOptionList_get(pool_options, opcode) # {}}}
    \cup {DhcpOption(MESSAGE_TYPE, <<OFFER>>), DhcpOption(END, <<>>)}

\* C13: an Offer carries the pool's default for each opcode of the request's
\* ParameterRequestList the pool has a default for, the pool's
\* ServerIdentifier and LeaseTime defaults, MessageType=Offer and End, which
\* is written last; it carries no other option and none twice
C13_OfferOptions ==
    (sent # {} /\ IsOfType(Sending, OFFER)) =>
        LET written == OptionsOf(Sending)
        IN  /\ {written[i] : i \in DOMAIN written} = OfferOptions(data, options)
            /\ Len(written) = Cardinality(OfferOptions(data, options))
            /\ written[Len(written)] = DhcpOption(END, <<>>)

\* an Offer to a Discover that asks for an option the pool has a default for
\* and for one it has none for, from a pool with all the defaults
C13_Witness ==
    /\ sent # {}
    /\ IsOfType(Sending, OFFER)
    /\ ROUTER \in Asked(data)
    /\ DhcpOptionList_get(options, ROUTER) # {}
    /\ DOMAIN_NAME_SERVER \in Asked(data)
    /\ DhcpOptionList_get(options, DOMAIN_NAME_SERVER) = {}
    /\ DhcpOptionList_get(options, DHCP_SERVER_IP_ADDR) # {}
    /\ DhcpOptionList_get(options, LEASE_TIME) # {}

\* C14: a datagram parse returns an error for is dropped: nothing is sent,
\* the pool is unchanged and the server runs on
C14_ParseErrorDropped ==
    [][Dhcp_parse(data').kind = "Err" => (alive' /\ sent' = {} /\ pool' = pool)]_vars

\* C15: a Decline, Release or Inform that parses is ignored: nothing is
\* sent, the pool is unchanged and the server runs on
C15_UnhandledIgnored ==
    [][(/\ Dhcp_parse(data').kind = "Ok"
        /\ Dhcp_parse(data').packet.message_type \in {DECLINE, RELEASE, INFORM})
       => (alive' /\ sent' = {} /\ pool' = pool)]_vars

\* C16: no crash poisons the Mutex around the pool
C16_CrashLeavesLockUsable == ~alive => ~poisoned

\* the MAC a datagram comes from
SenderOf(datagram) == MacAddr_new(Bytes(datagram, 28, 34))

\* C18: an Ack to a Request from a MAC that holds a lease sets the expires
\* of that lease to the current time plus the lease time
C18_AckRefreshesExpires ==
    [][\A ip \in DOMAIN pool :
          (/\ sent' # {}
           /\ IsOfType(unwrap(sent'), ACK)
           /\ pool[ip] # {}
           /\ unwrap(pool[ip]).mac_address = SenderOf(data'))
          => (/\ pool'[ip] # {}
              /\ ExpiresAt(pool', ip) = now' + lease_time_of(LeaseTimeOption(options)))]_vars

----------------------------------------------------------------------------
(* Claims about Dhcp::parse, checked under SpecCodec *)

\* C20: for a byte sequence of length n < 240, whatever it holds, parse
\* returns PayloadTooShort(n)
C20_TooShort ==
    (parsed # NotParsed /\ Len(data) < 240) => parsed = Err("PayloadTooShort", Len(data))

\* a request cut one byte short of the 240, parsed
C20_Witness ==
    /\ parsed = Err("PayloadTooShort", 239)
    /\ Len(data) = 239
    /\ data[1] = REQUEST_OP_CODE

\* C21: for a byte sequence of 240 bytes or more whose first byte is not 1,
\* parse returns NotADhcpRequest with that byte, whatever the bytes at
\* 236..240 and the options hold
C21_NotARequest ==
    (parsed # NotParsed /\ Len(data) >= 240 /\ data[1] # 1)
        => parsed = Err("NotADhcpRequest", data[1])

\* a reply without the magic, parsed
C21_Witness ==
    /\ parsed = Err("NotADhcpRequest", 2)
    /\ Len(data) >= 240
    /\ Bytes(data, 236, 240) = <<0, 0, 0, 0>>

\* C22: for a byte sequence of 240 bytes or more whose first byte is 1 and
\* whose bytes 236..240 are not 63 82 53 63 (hexadecimal), parse returns
\* DhcpMagicMissing; parse returns no packet without the magic there
C22_MagicMissing ==
    /\ (parsed # NotParsed /\ Len(data) >= 240 /\ data[1] = 1
            /\ Bytes(data, 236, 240) # <<99, 130, 83, 99>>)
          => parsed = Err("DhcpMagicMissing", 0)
    /\ parsed.kind = "Ok" => Bytes(data, 236, 240) = <<99, 130, 83, 99>>

\* a request with one byte of the magic wrong and a MessageType of two
\* bytes behind it, parsed
C22_Witness ==
    /\ parsed = Err("DhcpMagicMissing", 0)
    /\ Len(data) >= 242
    /\ Bytes(data, 236, 240) = <<99, 130, 83, 0>>
    /\ Bytes(data, 240, 242) = <<MESSAGE_TYPE, 2>>

\* the options a receiver reads in a datagram up to its first End
UpToEnd(datagram) ==
    LET read == OptionsOf(datagram)
        ends == {i \in DOMAIN read : read[i].opcode = END}
    IN  IF ends = {} THEN read ELSE SubSeq(read, 1, SetMin(ends))

\* the MessageType options of a datagram that have their byte of value
MessageTypesOf(datagram) ==
    {i \in DOMAIN UpToEnd(datagram) :
        /\ UpToEnd(datagram)[i].opcode = MESSAGE_TYPE
        /\ Len(UpToEnd(datagram)[i].value) = MESSAGE_TYPE_LEN}

\* C23: parse returns a packet only for a datagram with exactly one
\* MessageType option: with none and with two of them it fails
C23_ExactlyOneMessageType ==
    parsed.kind = "Ok" => Cardinality(MessageTypesOf(data)) = 1

RECURSIVE LengthsFrom(_, _)

\* the opcode and the length byte of the options a receiver reads in a
\* datagram from element at on, up to End or to the end of the datagram
LengthsFrom(datagram, at) ==
    IF at > Len(datagram) \/ datagram[at] = END THEN <<>>
    ELSE IF datagram[at] = PAD THEN LengthsFrom(datagram, at + 1)
    ELSE IF at + 1 > Len(datagram) THEN <<>>
    ELSE << [opcode |-> datagram[at], len |-> datagram[at + 1]] >>
         \o LengthsFrom(datagram, at + 2 + datagram[at + 1])

\* the constraint on the length byte of an option
LengthAllowed(opcode, len) ==
    IF opcode = MESSAGE_TYPE THEN len = 1
    ELSE IF opcode = MAX_MESSAGE_SIZE THEN len = 2
    ELSE IF opcode \in {REQUESTED_IP_ADDR, DHCP_SERVER_IP_ADDR} THEN len = 4
    ELSE IF opcode = PARAMETER_REQUEST_LIST THEN len >= 1 /\ len <= 40
    ELSE IF opcode = VENDOR_CLASS_ID THEN len <= 32
    ELSE IF opcode = CLIENT_SYSTEM_ARCH THEN len = 2
    ELSE IF opcode = CLIENT_NET_DEV_INTERFACE THEN len = 3
    ELSE IF opcode = CLIENT_UID THEN len >= 2 /\ len <= 17
    ELSE IF opcode = CLIENT_ID THEN len = 7
    ELSE TRUE

\* the options of a datagram whose length byte violates its constraint
BadLengthsOf(datagram) ==
    LET read == LengthsFrom(datagram, OPTIONS_START + 1)
    IN  {i \in DOMAIN read : ~LengthAllowed(read[i].opcode, read[i].len)}

\* C24: parse returns an error, and no packet, for a request with the magic
\* in which the length byte of a recognized option violates its constraint;
\* for a MessageType it is MessageTypeBadLen, for a RequestedIpAddr or a
\* ServerIdentifier InvalidIpAddrLen, with the length byte
C24_BadLengthIsError ==
    (/\ parsed # NotParsed
     /\ Len(data) >= 240
     /\ data[1] = 1
     /\ Bytes(data, 236, 240) = MAGIC
     /\ BadLengthsOf(data) # {})
    => LET read  == LengthsFrom(data, OPTIONS_START + 1)
           first == read[SetMin(BadLengthsOf(data))]
       IN  /\ parsed.kind = "Err"
           /\ first.opcode = MESSAGE_TYPE => parsed = Err("MessageTypeBadLen", first.len)
           /\ first.opcode \in {REQUESTED_IP_ADDR, DHCP_SERVER_IP_ADDR}
                 => parsed = Err("InvalidIpAddrLen", first.len)

RECURSIVE TruncatedFrom(_, _)

\* whether a receiver reading the options of a datagram from element at on
\* meets, before End, an option that has its length byte and fewer bytes of
\* value left in the datagram than the length byte tells
TruncatedFrom(datagram, at) ==
    IF at > Len(datagram) \/ datagram[at] = END THEN FALSE
    ELSE IF datagram[at] = PAD THEN TruncatedFrom(datagram, at + 1)
    ELSE IF at + 1 > Len(datagram) THEN FALSE
    ELSE IF at + 1 + datagram[at + 1] > Len(datagram) THEN TRUE
    ELSE TruncatedFrom(datagram, at + 2 + datagram[at + 1])

\* C25: parse fails with DhcpOptionLenOutOfBounds for a request with the
\* magic in which an option has a valid length byte and fewer bytes of value
\* than it tells; it returns no packet that leaves the option out
C25_TruncatedIsOutOfBounds ==
    (/\ parsed # NotParsed
     /\ Len(data) >= 240
     /\ data[1] = 1
     /\ Bytes(data, 236, 240) = MAGIC
     /\ BadLengthsOf(data) = {}
     /\ TruncatedFrom(data, OPTIONS_START + 1))
    => parsed = Err("DhcpOptionLenOutOfBounds", 0)

RECURSIVE PadsFrom(_, _)

\* whether the bytes of a datagram from element at on are Pad bytes, then a
\* MessageType option with its byte of value, then End
PadsFrom(datagram, at) ==
    IF at > Len(datagram) THEN FALSE
    ELSE IF datagram[at] = PAD THEN PadsFrom(datagram, at + 1)
    ELSE /\ at + 3 <= Len(datagram)
         /\ datagram[at] = MESSAGE_TYPE
         /\ datagram[at + 1] = MESSAGE_TYPE_LEN
         /\ datagram[at + 3] = END

\* C26: parse ends with a packet on a request with the magic whose options
\* are Pad bytes followed by a MessageType option and End: a Pad takes one
\* byte and the loop goes on with the next byte
C26_PadsThenMessageType ==
    (/\ parsed # NotParsed
     /\ Len(data) >= 240
     /\ data[1] = 1
     /\ Bytes(data, 236, 240) = MAGIC
     /\ PadsFrom(data, OPTIONS_START + 1))
    => /\ parsed.kind = "Ok"
       /\ parsed.packet.message_type = data[Len(data) - 1]

\* C27: parse fails closed: on every byte sequence it returns a packet or
\* one of the error kinds, and never aborts the thread that called it
C27_FailsClosed ==
    parsed # NotParsed => parsed.kind \in {"Ok", "Err"}

----------------------------------------------------------------------------
(* Claims about serialiase and parse together, checked under SpecCodec *)

\* the opcodes DhcpOption::serialise has an arm for
Serialised ==
    {SUBNET_MASK, ROUTER, HOST_NAME, DOMAIN_NAME, BROADCAST_ADDRESS,
     DOMAIN_NAME_SERVER, MESSAGE_TYPE, DHCP_SERVER_IP_ADDR, LEASE_TIME, END}

\* the options a DhcpOptionList holds, but for the MessageType, which a
\* packet holds as its message type
OptionSet(list) ==
    {list.options[i] : i \in {i \in 1..list.count : list.options[i].opcode # MESSAGE_TYPE}}

\* the header fields of a Dhcp struct: op, htype, hlen, hops, xid, secs,
\* flags, ciaddr, yiaddr, siaddr, giaddr and chaddr
HeaderOf(p) ==
    <<p.op_code, p.hw_addr_ty, p.hw_addr_len, p.hops, p.transaction_id, p.secs,
      p.flags, p.client_addr, p.server_addr, p.next_server_addr, p.relay_addr,
      p.client_hw_addr>>

\* C28: round trip: a packet whose options are all of opcodes that serialise
\* writes is serialised to bytes that parse to a packet with the same header
\* fields, the same message type and the same set of options
C28_RoundTrip ==
    (/\ packet # {}
     /\ \A i \in 1..unwrap(packet).options.count :
            unwrap(packet).options.options[i].opcode \in Serialised)
    => /\ sent # {}
       /\ Dhcp_parse(unwrap(sent)).kind = "Ok"
       /\ HeaderOf(Dhcp_parse(unwrap(sent)).packet) = HeaderOf(unwrap(packet))
       /\ Dhcp_parse(unwrap(sent)).packet.message_type = unwrap(packet).message_type
       /\ OptionSet(Dhcp_parse(unwrap(sent)).packet.options) = OptionSet(unwrap(packet).options)

----------------------------------------------------------------------------
(* Claims about DhcpOptionList, checked under SpecList *)

\* C29: after any sequence of add calls the list holds at most one option
\* per opcode: an add with an opcode the list holds replaces the entry, and
\* the size of the list does not grow
C29_OnePerOpcode ==
    /\ \A i, j \in 1..options.count :
          options.options[i].opcode = options.options[j].opcode => i = j
    /\ options.count = Cardinality({options.options[i].opcode : i \in 1..options.count})

----------------------------------------------------------------------------
(* Claims about the header of an Offer, checked under SpecServe *)

ServerIdentifiers ==
    {options.options[i].value :
        i \in {i \in 1..options.count : options.options[i].opcode = DHCP_SERVER_IP_ADDR}}

----------------------------------------------------------------------------
(* Claims about the leases under the datagrams, checked under SpecServe *)

\* C31: handling a Request, whether verify and verify_request end in an Ack
\* or in a Nack, leaves the whole pool as it was, and no datagram turns a
\* leased address into a free one or takes an address out of the pool
C31_LeasesOnlyByRequest ==
    [][/\ IsOfType(data', REQUEST) => pool' = pool
       /\ DOMAIN pool' = DOMAIN pool
       /\ \A ip \in DOMAIN pool : pool[ip] # {} => pool'[ip] # {}]_vars

\* a Request has been refused while every address of the pool is leased
C31_Witness ==
    /\ IsOfType(data, REQUEST)
    /\ sent # {}
    /\ IsOfType(Sending, NACK)
    /\ \A ip \in DOMAIN pool : pool[ip] # {}
    /\ Cardinality(DOMAIN pool) = PoolSize

\* the pool holds a lease that binds the address ip to the MAC m
LeaseOf(ip, m) ==
    /\ ip \in DOMAIN pool
    /\ \E client \in pool[ip] : client.mac_address = m

\* C32 as stated: the server sends an Ack with yiaddr = ip to chaddr m only
\* if the pool, when verify decides, holds a lease that binds ip to m: no Ack
\* names an address leased to another MAC or an address outside the pool
C32_AckOnlyForLease ==
    (sent # {} /\ IsOfType(Sending, ACK)) =>
        LeaseOf(Ipv4Addr_from(Bytes(Sending, 16, 20)), MacAddr_new(Bytes(Sending, 28, 34)))

\* the addresses the RequestedIpAddr options of a datagram ask for
RequestedIn(datagram) ==
    {OptionsOf(datagram)[i].value :
        i \in {i \in DOMAIN OptionsOf(datagram) :
                  OptionsOf(datagram)[i].opcode = REQUESTED_IP_ADDR}}

\* C32: the server sends an Ack with yiaddr = ip to chaddr m only if the
\* Request asked for ip in a RequestedIpAddr and the pool, when verify
\* decides, holds a lease that binds ip to m, or if the Request carried no
\* RequestedIpAddr and ip is its ciaddr, which is not zero
C32_AckForLeaseOrRenewal ==
    (sent # {} /\ IsOfType(Sending, ACK)) =>
        /\ Bytes(Sending, 28, 34) = Bytes(data, 28, 34)
        /\ IF RequestedIn(data) = {}
           THEN /\ Bytes(data, 12, 16) # Zeros(4)
                /\ Bytes(Sending, 16, 20) = Bytes(data, 12, 16)
           ELSE /\ Bytes(Sending, 16, 20) \in RequestedIn(data)
                /\ LeaseOf(Ipv4Addr_from(Bytes(Sending, 16, 20)),
                           MacAddr_new(Bytes(Sending, 28, 34)))

\* an Ack for a requested address while every address of the pool is leased
\* and another MAC holds the other one
C32_Witness ==
    /\ sent # {}
    /\ IsOfType(Sending, ACK)
    /\ RequestedIn(data) = {Bytes(Sending, 16, 20)}
    /\ Cardinality(DOMAIN pool) = PoolSize
    /\ \A ip \in DOMAIN pool : pool[ip] # {}
    /\ \E ip \in DOMAIN pool : \E client \in pool[ip] :
          client.mac_address # MacAddr_new(Bytes(Sending, 28, 34))

============================================================================
